---- MODULE Spec2Model ----
(***************************************************************************)
(* podchat: the conversational interrupt pipeline of main_cli.py.          *)
(*                                                                         *)
(* PodcastController.handle_talk pauses the player, runs the turn loop     *)
(* (capture speech, generate_host_response), starts the background rewind  *)
(* resolver on the first captured question and finally joins it, plays the *)
(* transition clip, seeks and resumes.  generate_host_response streams     *)
(* text deltas, cuts them into sentences per speaker, synthesizes each     *)
(* sentence and hands the clip to a playback thread over a Queue.          *)
(*                                                                         *)
(* Text is a sequence of one-character strings, so that the regular        *)
(* expressions, strip() and lower() of the source are computed and not     *)
(* assumed.                                                                *)
(***************************************************************************)
EXTENDS Integers, Sequences, FiniteSets, TLC

(***************************************************************************)
(* Bounds of the model.                                                    *)
(***************************************************************************)
\* turns of the conversation loop of one handle_talk session
MaxTurns == 2
\* deltas the text stream of one turn yields in a session (Spec)
MaxDeltas == 2
\* deltas the text stream yields in the single-turn specification (TurnSpec)
MaxTurnDeltas == 3
\* the latest second of the episode at which the listener interrupts, in the
\* specification of find_rewind_point (RewindSpec)
MaxInterrupt == 34

\* deltas of one response in the specification of the segmenter
MaxSegmentDeltas == 3

\* the largest ring buffer of the voice detector, in frames
MaxPaddingFrames == 11

\* callbacks the voice detector invokes in one run
MaxCallbacks == 3

\* pause and resume calls of the voice-activated controller in one run
MaxVoiceCalls == 8

(***************************************************************************)
(* Text helpers: str.strip, str.lower, the `in` operator, ''.join.         *)
(***************************************************************************)
\* Python's None, and a value that is present
None == <<>>

Some(x) == <<x>>

IsSpace(c) == c = " "

IsTerm(c) == c \in {".", "!", "?"}

MinOf(S) == CHOOSE x \in S : \A y \in S : x <= y

MaxOf(S) == CHOOSE x \in S : \A y \in S : x >= y

\* str.strip(): leading and trailing whitespace removed
Strip(s) ==
  LET keep == {i \in 1..Len(s) : ~IsSpace(s[i])}
  IN  IF keep = {} THEN <<>> ELSE SubSeq(s, MinOf(keep), MaxOf(keep))

UpperToLower ==
  [c \in {"A", "B", "E", "N", "O", "R", "S", "T", "U", "X", "Y"} |->
     CASE c = "A" -> "a" [] c = "B" -> "b" [] c = "E" -> "e" [] c = "N" -> "n"
       [] c = "O" -> "o" [] c = "R" -> "r" [] c = "S" -> "s" [] c = "T" -> "t"
       [] c = "U" -> "u" [] c = "X" -> "x" [] c = "Y" -> "y"]

\* str.lower()
Lower(s) ==
  [i \in 1..Len(s) |-> IF s[i] \in DOMAIN UpperToLower THEN UpperToLower[s[i]] ELSE s[i]]

\* t in s, for a non-empty t
Contains(s, t) ==
  \E i \in 1..(Len(s) - Len(t) + 1) : SubSeq(s, i, i + Len(t) - 1) = t

RECURSIVE Join(_)
\* ''.join(parts)
Join(parts) == IF parts = <<>> THEN <<>> ELSE Head(parts) \o Join(Tail(parts))

(***************************************************************************)
(* The two regular expressions of generate_host_response.                  *)
(***************************************************************************)
RECURSIVE SplitSentences(_)
\* re.split(r'([.!?]+)', s): text, terminator run, text, ..., text
SplitSentences(s) ==
  LET terms == {i \in 1..Len(s) : IsTerm(s[i])}
  IN  IF terms = {} THEN <<s>>
      ELSE LET i == MinOf(terms)
               stops == {j \in i..Len(s) : ~IsTerm(s[j])}
               e == IF stops = {} THEN Len(s) ELSE MinOf(stops) - 1
           IN  <<SubSeq(s, 1, i - 1), SubSeq(s, i, e)>>
                 \o SplitSentences(SubSeq(s, e + 1, Len(s)))

\* the closing bracket of a speaker tag that opens at p, 0 if none:
\* '[' one or more characters other than ']' then ':]'
TagClose(s, p) ==
  IF s[p] # "[" THEN 0
  ELSE LET closes == {q \in (p + 1)..Len(s) : s[q] = "]"}
       IN  IF closes = {} THEN 0
           ELSE LET q == MinOf(closes)
                IN  IF q - 1 >= p + 2 /\ s[q - 1] = ":" THEN q ELSE 0

RECURSIVE SplitSpeakers(_)
\* re.split(r'\[([^\]]+):\]', s): prefix, speaker, text, speaker, text, ...
SplitSpeakers(s) ==
  LET opens == {p \in 1..Len(s) : TagClose(s, p) # 0}
  IN  IF opens = {} THEN <<s>>
      ELSE LET p == MinOf(opens)
               q == TagClose(s, p)
           IN  <<SubSeq(s, 1, p - 1), SubSeq(s, p + 1, q - 2)>>
                 \o SplitSpeakers(SubSeq(s, q + 1, Len(s)))

(***************************************************************************)
(* The exit token.                                                         *)
(***************************************************************************)
ReturnDetected_CaseSensitive(full_response) ==
  Contains(full_response, <<"[", "R", "E", "T", "U", "R", "N", "]">>)

\* "[RETURN]" in full_response or "[return]" in full_response.lower()
ReturnDetected(full_response) ==
  \/ Contains(full_response, <<"[", "R", "E", "T", "U", "R", "N", "]">>)
  \/ Contains(Lower(full_response), <<"[", "r", "e", "t", "u", "r", "n", "]">>)

(***************************************************************************)
(* The segmenter of generate_host_response.  Its locals are the record     *)
(* [text_buffer, current_speaker, voice_id, sentence_count, chunks]:       *)
(* chunks lists, in order, the sentences handed to text_to_speech.convert  *)
(* while one delta is processed, each with the sentence_count it got and   *)
(* the voice_id it is synthesized with.                                    *)
(***************************************************************************)
\* current_speaker = None, and voice_id not yet assigned
NoSpeaker == <<>>

\* self.current_voice_ids[speaker]
VoiceOf(speaker) == <<"voice", speaker>>

Range(f) == {f[i] : i \in DOMAIN f}

Emit_CountsDropped(st, sentence) ==
  IF sentence # <<>> /\ Len(sentence) > 3
  THEN [st EXCEPT !.sentence_count = @ + 1,
                  !.chunks = Append(@, [seq |-> st.sentence_count + 1,
                                        speaker |-> st.current_speaker,
                                        voice_id |-> st.voice_id,
                                        text |-> sentence])]
  ELSE [st EXCEPT !.sentence_count = @ + 1]

\* if sentence and len(sentence) > 3: sentence_count += 1; convert; put
Emit(st, sentence) ==
  IF sentence # <<>> /\ Len(sentence) > 3
  THEN [st EXCEPT !.sentence_count = @ + 1,
                  !.chunks = Append(@, [seq |-> st.sentence_count + 1,
                                        speaker |-> st.current_speaker,
                                        voice_id |-> st.voice_id,
                                        text |-> sentence])]
  ELSE st

RECURSIVE PlainSentences(_)
\* the sentence loop of the untagged branch: text_buffer is split again
\* after every sentence
PlainSentences(st) ==
  LET sentences == SplitSentences(st.text_buffer)
  IN  IF Len(sentences) < 2 THEN st
      ELSE PlainSentences(
             [Emit(st, Strip(sentences[1] \o sentences[2]))
                EXCEPT !.text_buffer = Join(SubSeq(sentences, 3, Len(sentences)))])

RECURSIVE TaggedSentences(_, _)
\* the sentence loop of one speaker's text: split once, consumed in pairs;
\* returns the locals and the remaining incomplete text
TaggedSentences(st, sentences) ==
  IF Len(sentences) < 2 THEN [st |-> st, remaining_text |-> Join(sentences)]
  ELSE TaggedSentences(Emit(st, Strip(sentences[1] \o sentences[2])),
                       SubSeq(sentences, 3, Len(sentences)))

RECURSIVE TagLoop(_, _, _, _)
\* while i < len(parts): parts is [prefix, speaker, text, speaker, text, ...]
\* and i is the 0-based index of the source
TagLoop(st, parts, i, voices) ==
  IF ~(i < Len(parts)) THEN st
  ELSE IF i = 0 THEN TagLoop(st, parts, 1, voices)
  ELSE IF ~(i + 1 < Len(parts)) THEN st
  ELSE LET potential_speaker == Strip(parts[i + 1])
           speaker_text == parts[i + 2]
       IN  IF potential_speaker \in Range(voices)
           THEN LET r == TaggedSentences(
                           [st EXCEPT !.current_speaker = potential_speaker,
                                      !.voice_id = VoiceOf(potential_speaker)],
                           SplitSentences(speaker_text))
                IN  IF i + 2 < Len(parts)
                    THEN TagLoop(
                           [r.st EXCEPT !.text_buffer =
                              IF i + 3 < Len(parts)
                              THEN <<"[">> \o parts[i + 3] \o <<":", "]">> \o parts[i + 4]
                              ELSE <<>>],
                           parts, i + 2, voices)
                    ELSE [r.st EXCEPT !.text_buffer = r.remaining_text]
           ELSE TagLoop(st, parts, i + 2, voices)

\* the body of `for text in stream.text_stream` after the exit-token check
ProcessBuffer(st, voices) ==
  LET parts == SplitSpeakers(st.text_buffer)
  IN  IF Len(parts) > 1 /\ Len(voices) > 1
      THEN TagLoop(st, parts, 0, voices)
      ELSE PlainSentences(
             IF st.current_speaker = NoSpeaker /\ Len(voices) > 0
             THEN [st EXCEPT !.current_speaker = voices[1],
                             !.voice_id = VoiceOf(voices[1])]
             ELSE st)

\* the locals of generate_host_response when the stream is opened
InitialLocals ==
  [text_buffer |-> <<>>, full_response |-> <<>>, current_speaker |-> NoSpeaker,
   voice_id |-> NoSpeaker, sentence_count |-> 0, chunks |-> <<>>,
   should_return |-> FALSE]

\* one iteration of `for text in stream.text_stream`: accumulate, look for
\* the exit token (break), otherwise cut the buffer into chunks
ConsumeText(st, text, voices) ==
  LET acc == [st EXCEPT !.text_buffer = @ \o text, !.full_response = @ \o text]
  IN  IF ReturnDetected(acc.full_response)
      THEN [acc EXCEPT !.should_return = TRUE]
      ELSE ProcessBuffer(acc, voices)

\* `if text_buffer.strip():` after the stream: the remaining text is one
\* more chunk, synthesized with whatever voice_id holds
Flush(st) ==
  IF Strip(st.text_buffer) # <<>>
  THEN [st EXCEPT !.sentence_count = @ + 1,
                  !.chunks = Append(@, [seq |-> st.sentence_count + 1,
                                        speaker |-> st.current_speaker,
                                        voice_id |-> st.voice_id,
                                        text |-> Strip(st.text_buffer)])]
  ELSE st

RECURSIVE ConsumeAll(_, _, _)
ConsumeAll(st, deltas, voices) ==
  IF deltas = <<>> \/ st.should_return THEN st
  ELSE ConsumeAll(ConsumeText(st, Head(deltas), voices), Tail(deltas), voices)

\* the chunks and the return value of a whole turn over the given deltas
\* when every synthesis succeeds; a flush with voice_id unassigned raises
\* (UnboundLocalError) and the turn returns False without that chunk
RunStream(deltas, voices) ==
  LET st == ConsumeAll(InitialLocals, deltas, voices)
      fl == Flush(st)
  IN  IF st.should_return THEN [chunks |-> st.chunks, ret |-> "True"]
      ELSE IF fl.chunks # st.chunks /\ st.voice_id = NoSpeaker
           THEN [chunks |-> st.chunks, ret |-> "UnboundLocalError"]
           ELSE [chunks |-> fl.chunks, ret |-> "False"]

(***************************************************************************)
(* Inputs: the speakers with a cloned voice, and the text deltas the       *)
(* streaming generator may yield.                                          *)
(***************************************************************************)
SpeakerA == <<"A">>

SpeakerB == <<"B">>

\* the deltas of a turn inside a session
Deltas ==
  { <<"O", "k", "a", "y", ".">>,
    <<"[", "B", ":", "]", " ", "S", "u", "r", "e", "!">>,
    <<"[", "R", "E", "T", "U", "R", "N", "]">> }

\* the deltas of the single-turn specification: words, terminators, a
\* sentence too short to speak, known and unknown speaker tags, and the
\* exit token in two casings, one of them cut in two
TurnDeltas ==
  { <<"O", "k", "a", "y">>,
    <<".">>,
    <<" ", "s", "o", ".", " ">>,
    <<"a", "b", ".">>,
    <<"[", "A", ":", "]">>,
    <<"[", "B", ":", "]", " ", "y", "e", "s", "!">>,
    <<"[", "X", ":", "]", " ", "n", "o", ".">>,
    <<"[", "R", "E", "T">>,
    <<"U", "R", "N", "]">>,
    <<"[", "R", "e", "t", "u", "r", "n", "]">> }

\* the text of the example: two sentences
GreatQuestion == <<"G", "r", "e", "a", "t", " ", "q", "u", "e", "s", "t", "i", "o", "n", ".">>

LetsDigIn == <<"L", "e", "t", "'", "s", " ", "d", "i", "g", " ", "i", "n", ".">>

\* the deltas of the specification of the segmenter: the two sentences
\* whole and in pieces, a terminator alone, a word without terminator, and
\* sentences behind the tags of two known speakers and an unknown one
SegmentDeltas ==
  { <<"G", "r", "e", "a", "t", " ", "q", "u", "e", "s", "t", "i", "o", "n">>,
    <<".">>,
    <<" ", "L", "e", "t", "'", "s", " ", "d", "i", "g", " ", "i", "n", ".">>,
    <<"G", "r", "e", "a", "t", " ", "q", "u", "e", "s", "t", "i", "o", "n", ".", " ", "L", "e", "t", "'", "s", " ", "d", "i", "g", " ", "i", "n", ".">>,
    <<"[", "A", ":", "]", " ", "H", "e", "l", "l", "o", " ", "t", "h", "e", "r", "e", ".">>,
    <<" ", "W", "e", "l", "l">>,
    <<"[", "B", ":", "]", " ", "S", "u", "r", "e", " ", "t", "h", "i", "n", "g", "!">>,
    <<"[", "X", ":", "]", " ", "N", "o", "p", "e", ".">> }

(***************************************************************************)
(* State.                                                                  *)
(***************************************************************************)
VARIABLES
  pc,                 \* where the main thread is, in handle_talk or generate_host_response
  was_playing,        \* status["is_playing"] when handle_talk began
  podcast_context,    \* handle_talk: a podcast episode was active
  has_transcript,     \* transcript_manager.has_transcript()
  current_voice_ids,  \* the speakers of self.current_voice_ids, in dict order
  turn_count,         \* handle_talk: turn_count
  first_user_question,\* handle_talk: first_user_question is not None
  should_exit,        \* handle_talk: the last value generate_host_response returned
  rewind_thread,      \* the resolver thread: where background_rewind_and_audio is
  rewind_result,      \* handle_talk: the dict shared with the resolver
  rewind_starts,      \* how many times rewind_thread.start() ran
  spotify_calls,      \* pause / seek_to_position / resume calls the code makes on self.spotify, in order
  resume_steps,       \* the resume block: how the join and the transition playback went
  transition_stream,  \* the resume block holds an open output stream
  gen,                \* generate_host_response: the segmenter's locals
  n_deltas,           \* deltas taken from stream.text_stream in this turn
  stream_ended,       \* the for loop over text_stream ran to its end
  turn_failed,        \* this turn left through `except Exception`
  audio_queue,        \* per turn: the Queue of (audio_file, sentence) and None
  playback_thread,    \* per turn: the state of the play_audio_queue thread
  stream,             \* per turn: play_audio_queue holds an open output stream
  item,               \* per turn: the clip play_audio_queue took and is playing
  synth_log,          \* this turn: chunks handed to text_to_speech.convert, with outcome
  put_log,            \* this turn: clips put on audio_queue, in order
  play_log,           \* this turn: clips play_audio_queue took, in order, with outcome
  vad,                \* VoiceActivityDetector: padding_frames, ring_buffer, triggered, is_speaking
  callbacks,          \* VoiceActivityDetector: the callbacks _listen_loop invoked, in order
  voice,              \* VoiceActivatedController, the player it drives, the calls it made
  cache,              \* TranscriptManager: the files of cache_dir, by cache key
  current_transcript, \* per TranscriptManager: self.current_transcript
  last_load,          \* TranscriptManager: the last load_transcript_* call and how it went
  loaded              \* cache keys load_transcript_for_episode has succeeded for

vars ==
  <<pc, was_playing, podcast_context, has_transcript, current_voice_ids,
    turn_count, first_user_question, should_exit, rewind_thread, rewind_result,
    rewind_starts, spotify_calls, resume_steps, transition_stream, gen, n_deltas,
    stream_ended, turn_failed, audio_queue, playback_thread, stream, item,
    synth_log, put_log, play_log, vad, callbacks, voice, cache,
    current_transcript, last_load, loaded>>

\* voice_detector.py
detectorVars == <<vad, callbacks>>

\* transcript_manager.py
transcriptVars == <<cache, current_transcript, last_load, loaded>>

\* the programs beside main_cli.py: handle_talk touches none of their state
standaloneVars == <<detectorVars, voice, transcriptVars>>

sessionVars ==
  <<was_playing, podcast_context, has_transcript, current_voice_ids,
    first_user_question, rewind_starts, spotify_calls, resume_steps,
    transition_stream>>

resolverVars == <<rewind_thread, rewind_result>>

producerVars == <<gen, n_deltas, stream_ended, turn_failed, synth_log, put_log>>

Turns == 1..MaxTurns

\* the end-of-turn sentinel: audio_queue.put(None)
Sentinel == [seq |-> 0]

(***************************************************************************)
(* queue.Queue, as generate_host_response uses it.                         *)
(***************************************************************************)
IsSentinel(x) == x.seq = 0

QueuePut_SentinelCancels(q, x) == IF IsSentinel(x) THEN <<x>> ELSE Append(q, x)

\* audio_queue.put(x)
QueuePut(q, x) == Append(q, x)

QueueGet_Lifo(q) == [item |-> q[Len(q)], rest |-> SubSeq(q, 1, Len(q) - 1)]

\* audio_queue.get() on a non-empty queue: the oldest item
QueueGet(q) == [item |-> Head(q), rest |-> Tail(q)]

\* the clips waiting on a queue
Clips(q) == SelectSeq(q, LAMBDA x : ~IsSentinel(x))

Alive(k) == playback_thread[k] \in {"waiting", "playing"}

\* generate_host_response is running, or has just returned to handle_talk
InTurn ==
  pc \in {"gen_stream", "gen_tts", "gen_flush", "gen_put", "gen_join", "ht_returned"}

(***************************************************************************)
(* generate_host_response: the producer (main thread).                     *)
(***************************************************************************)
\* leaving through `except Exception as e:` ... `return False`
RaisedInTurn ==
  /\ turn_failed' = TRUE
  /\ should_exit' = FALSE
  /\ pc' = "ht_returned"

\* lines 534-700: prompts, status, API client, the queue and the playback
\* thread of this turn
GenStart ==
  /\ pc = "gen_start"
  /\ gen' = InitialLocals
  /\ n_deltas' = 0
  /\ stream_ended' = FALSE
  /\ synth_log' = <<>>
  /\ put_log' = <<>>
  /\ play_log' = <<>>
  /\ \/ /\ playback_thread' = [playback_thread EXCEPT ![turn_count] = "waiting"]
        /\ pc' = "gen_stream"
        /\ turn_failed' = FALSE
        /\ UNCHANGED should_exit
     \/ \* a call before playback_thread.start() raised
        /\ RaisedInTurn
        /\ UNCHANGED playback_thread
  /\ UNCHANGED <<standaloneVars, sessionVars, resolverVars, turn_count, audio_queue, stream, item>>

TextDelta_SynthesisAtTheEnd(text) ==
  /\ pc = "gen_stream"
  /\ LET st == ConsumeText(gen, text, current_voice_ids)
     IN  /\ gen' = st
         /\ pc' = IF st.should_return THEN "gen_put" ELSE "gen_stream"
  /\ n_deltas' = n_deltas + 1
  /\ UNCHANGED <<standaloneVars, sessionVars, resolverVars, turn_count, should_exit, stream_ended,
                 turn_failed, audio_queue, playback_thread, stream, item,
                 synth_log, put_log, play_log>>

\* one delta of stream.text_stream: lines 721-870 up to the first synthesis
TextDelta(text) ==
  /\ pc = "gen_stream"
  /\ LET st == ConsumeText(gen, text, current_voice_ids)
     IN  /\ gen' = st
         /\ pc' = IF st.should_return THEN "gen_put"
                  ELSE IF st.chunks # <<>> THEN "gen_tts" ELSE "gen_stream"
  /\ n_deltas' = n_deltas + 1
  /\ UNCHANGED <<standaloneVars, sessionVars, resolverVars, turn_count, should_exit, stream_ended,
                 turn_failed, audio_queue, playback_thread, stream, item,
                 synth_log, put_log, play_log>>

\* a delta inside a session
StreamText ==
  /\ n_deltas < MaxDeltas
  /\ \E text \in Deltas : TextDelta(text)

\* a delta of the single-turn specification
TurnStreamText ==
  /\ n_deltas < MaxTurnDeltas
  /\ \E text \in TurnDeltas : TextDelta(text)

\* a delta of the specification of the segmenter
SegmentStreamText ==
  /\ n_deltas < MaxSegmentDeltas
  /\ \E text \in SegmentDeltas : TextDelta(text)

\* text_to_speech.convert for the next chunk, the file written, and
\* audio_queue.put((audio_file, sentence)); or convert raising, or (final
\* chunk only) voice_id read before it was ever assigned
Synthesize ==
  /\ pc \in {"gen_tts", "gen_flush"}
  /\ LET chunk == Head(gen.chunks)
     IN  \/ /\ chunk.voice_id # NoSpeaker
            /\ synth_log' = Append(synth_log, [chunk |-> chunk, ok |-> TRUE])
            /\ audio_queue' = [audio_queue EXCEPT ![turn_count] = QueuePut(@, chunk)]
            /\ put_log' = Append(put_log, chunk)
            /\ gen' = [gen EXCEPT !.chunks = Tail(@)]
            /\ pc' = IF Tail(gen.chunks) # <<>> THEN pc
                     ELSE IF pc = "gen_tts" THEN "gen_stream" ELSE "gen_put"
            /\ UNCHANGED <<should_exit, turn_failed>>
         \/ /\ synth_log' = Append(synth_log, [chunk |-> chunk, ok |-> FALSE])
            /\ RaisedInTurn
            /\ UNCHANGED <<gen, audio_queue, put_log>>
  /\ UNCHANGED <<standaloneVars, sessionVars, resolverVars, turn_count, n_deltas, stream_ended,
                 playback_thread, stream, item, play_log>>

\* the stream is exhausted: lines 880-900 up to the synthesis of the rest
StreamEnd ==
  /\ pc = "gen_stream"
  /\ stream_ended' = TRUE
  /\ LET st == Flush(gen)
     IN  /\ gen' = st
         /\ pc' = IF st.chunks # <<>> THEN "gen_flush" ELSE "gen_put"
  /\ UNCHANGED <<standaloneVars, sessionVars, resolverVars, turn_count, should_exit, n_deltas,
                 turn_failed, audio_queue, playback_thread, stream, item,
                 synth_log, put_log, play_log>>

\* the streaming request raised
StreamError ==
  /\ pc = "gen_stream"
  /\ RaisedInTurn
  /\ UNCHANGED <<standaloneVars, sessionVars, resolverVars, turn_count, gen, n_deltas, stream_ended,
                 audio_queue, playback_thread, stream, item, synth_log, put_log,
                 play_log>>

\* audio_queue.put(None): line 875 after the exit token, line 903 otherwise
PutSentinel ==
  /\ pc = "gen_put"
  /\ audio_queue' = [audio_queue EXCEPT ![turn_count] = QueuePut(@, Sentinel)]
  /\ pc' = "gen_join"
  /\ UNCHANGED <<standaloneVars, sessionVars, resolverVars, turn_count, should_exit, producerVars,
                 playback_thread, stream, item, play_log>>

\* playback_thread.join() and the return: True after the exit token
JoinPlayback ==
  /\ pc = "gen_join"
  /\ playback_thread[turn_count] = "finished"
  /\ should_exit' = gen.should_return
  /\ pc' = "ht_returned"
  /\ UNCHANGED <<standaloneVars, sessionVars, resolverVars, turn_count, producerVars, audio_queue,
                 playback_thread, stream, item, play_log>>

(***************************************************************************)
(* play_audio_queue: the consumer thread of turn k.                        *)
(***************************************************************************)
\* item = audio_queue.get(); on None: break, and the finally block
GetItem(k) ==
  /\ playback_thread[k] = "waiting"
  /\ audio_queue[k] # <<>>
  /\ LET got == QueueGet(audio_queue[k])
     IN  /\ audio_queue' = [audio_queue EXCEPT ![k] = got.rest]
         /\ IF IsSentinel(got.item)
            THEN /\ playback_thread' = [playback_thread EXCEPT ![k] = "finished"]
                 /\ stream' = [stream EXCEPT ![k] = FALSE]
                 /\ UNCHANGED item
            ELSE /\ playback_thread' = [playback_thread EXCEPT ![k] = "playing"]
                 /\ item' = [item EXCEPT ![k] = got.item]
                 /\ UNCHANGED stream
  /\ UNCHANGED <<standaloneVars, pc, sessionVars, resolverVars, turn_count, should_exit, producerVars,
                 play_log>>

PlayItem_ErrorEndsThread(k) ==
  /\ playback_thread[k] = "playing"
  /\ item' = [item EXCEPT ![k] = Sentinel]
  /\ \E ok \in BOOLEAN :
       /\ play_log' = IF k = turn_count /\ InTurn
                      THEN Append(play_log, [clip |-> item[k], ok |-> ok])
                      ELSE play_log
       /\ IF ok
          THEN /\ playback_thread' = [playback_thread EXCEPT ![k] = "waiting"]
               /\ stream' = [stream EXCEPT ![k] = TRUE]
          ELSE /\ playback_thread' = [playback_thread EXCEPT ![k] = "finished"]
               /\ stream' = [stream EXCEPT ![k] = FALSE]
  /\ UNCHANGED <<standaloneVars, pc, sessionVars, resolverVars, turn_count, should_exit, producerVars,
                 audio_queue>>

\* lines 664-691: decode, open the stream for the first clip, write the
\* frames; an exception is printed and the loop goes on
PlayItem(k) ==
  /\ playback_thread[k] = "playing"
  /\ playback_thread' = [playback_thread EXCEPT ![k] = "waiting"]
  /\ item' = [item EXCEPT ![k] = Sentinel]
  /\ \E ok \in BOOLEAN :
       /\ play_log' = IF k = turn_count /\ InTurn
                      THEN Append(play_log, [clip |-> item[k], ok |-> ok])
                      ELSE play_log
       /\ \/ stream' = [stream EXCEPT ![k] = TRUE]
          \/ \* raised before p.open
             ~ok /\ UNCHANGED stream
  /\ UNCHANGED <<standaloneVars, pc, sessionVars, resolverVars, turn_count, should_exit, producerVars,
                 audio_queue>>

Consumer == \E k \in Turns : GetItem(k) \/ PlayItem(k)

(***************************************************************************)
(* find_rewind_point.  Times are whole seconds.  A response of the         *)
(* reasoning model is [error, timestamp, transition]: the call raised, the *)
(* seconds of the TIMESTAMP line (None if none parsed), and the text of    *)
(* the TRANSITION line (None if none parsed).                              *)
(***************************************************************************)
Max0(x) == IF x > 0 THEN x ELSE 0

\* progress_ms / 1000 when handle_talk began, in a session: ten seconds
\* into the episode, so that the fallback is second 0 and an accepted
\* suggestion is not
InterruptTimes == {10}

TransitionText == <<"B", "a", "c", "k", ".">>

\* the responses of the reasoning model in a session
ModelResponses ==
  { [error |-> TRUE, timestamp |-> None, transition |-> None],
    [error |-> FALSE, timestamp |-> None, transition |-> None],
    [error |-> FALSE, timestamp |-> Some(8), transition |-> TransitionText] }

\* the responses of the reasoning model in the specification of
\* find_rewind_point: the call raises, or any TIMESTAMP (none, before the
\* window, in it, after the interrupt) with or without a TRANSITION
AllResponses ==
  { [error |-> TRUE, timestamp |-> None, transition |-> None] }
  \cup [error : {FALSE},
        timestamp : {None} \cup {Some(t) : t \in 0..(MaxInterrupt + 4)},
        transition : {None, TransitionText}]

\* no response yet
NoResponse == [error |-> FALSE, timestamp |-> None, transition |-> None]

\* the resolver thread before rewind_thread.start()
IdleResolver ==
  [at |-> "unstarted", interrupt |-> 0, transition |-> None,
   response |-> NoResponse, transcript_context |-> FALSE]

FindRewindPoint_Unvalidated(interrupt_timestamp, transcript_context, response) ==
  LET fallback == Max0(interrupt_timestamp - 10)
  IN  IF ~transcript_context \/ response.error
      THEN [timestamp |-> Some(fallback), transition |-> None]
      ELSE IF response.timestamp = None
      THEN [timestamp |-> Some(fallback), transition |-> response.transition]
      ELSE [timestamp |-> response.timestamp, transition |-> response.transition]

FindRewindPoint_NoTolerance(interrupt_timestamp, transcript_context, response) ==
  LET fallback == Max0(interrupt_timestamp - 10)
      min_allowed == Max0(interrupt_timestamp - 30)
  IN  IF ~transcript_context \/ response.error
      THEN [timestamp |-> Some(fallback), transition |-> None]
      ELSE IF response.timestamp = None
      THEN [timestamp |-> Some(fallback), transition |-> response.transition]
      ELSE IF min_allowed <= response.timestamp[1]
                /\ response.timestamp[1] <= interrupt_timestamp
      THEN [timestamp |-> response.timestamp, transition |-> response.transition]
      ELSE [timestamp |-> Some(fallback), transition |-> response.transition]

FindRewindPoint_DropsTransition(interrupt_timestamp, transcript_context, response) ==
  LET fallback == Max0(interrupt_timestamp - 10)
      min_allowed == Max0(interrupt_timestamp - 30)
  IN  IF ~transcript_context \/ response.error
      THEN [timestamp |-> Some(fallback), transition |-> None]
      ELSE IF response.timestamp = None
      THEN [timestamp |-> Some(fallback), transition |-> response.transition]
      ELSE IF min_allowed - 2 <= response.timestamp[1]
                /\ response.timestamp[1] <= interrupt_timestamp
      THEN [timestamp |-> response.timestamp, transition |-> response.transition]
      ELSE [timestamp |-> Some(fallback), transition |-> None]

FindRewindPoint_ErrorRewindsNothing(interrupt_timestamp, transcript_context, response) ==
  LET fallback == Max0(interrupt_timestamp - 10)
      min_allowed == Max0(interrupt_timestamp - 30)
  IN  IF ~transcript_context
      THEN [timestamp |-> Some(fallback), transition |-> None]
      ELSE IF response.error
      THEN [timestamp |-> Some(interrupt_timestamp), transition |-> None]
      ELSE IF response.timestamp = None
      THEN [timestamp |-> Some(fallback), transition |-> response.transition]
      ELSE IF min_allowed - 2 <= response.timestamp[1]
                /\ response.timestamp[1] <= interrupt_timestamp
      THEN [timestamp |-> response.timestamp, transition |-> response.transition]
      ELSE [timestamp |-> Some(fallback), transition |-> response.transition]

FindRewindPoint_ErrorEscapes(interrupt_timestamp, transcript_context, response) ==
  LET fallback == Max0(interrupt_timestamp - 10)
      min_allowed == Max0(interrupt_timestamp - 30)
  IN  IF ~transcript_context
      THEN [timestamp |-> Some(fallback), transition |-> None]
      ELSE IF response.error
      THEN [timestamp |-> None, transition |-> None]
      ELSE IF response.timestamp = None
      THEN [timestamp |-> Some(fallback), transition |-> response.transition]
      ELSE IF min_allowed - 2 <= response.timestamp[1]
                /\ response.timestamp[1] <= interrupt_timestamp
      THEN [timestamp |-> response.timestamp, transition |-> response.transition]
      ELSE [timestamp |-> Some(fallback), transition |-> response.transition]

FindRewindPoint_FallbackUnclamped(interrupt_timestamp, transcript_context, response) ==
  LET fallback == interrupt_timestamp - 10
      min_allowed == Max0(interrupt_timestamp - 30)
  IN  IF ~transcript_context \/ response.error
      THEN [timestamp |-> Some(fallback), transition |-> None]
      ELSE IF response.timestamp = None
      THEN [timestamp |-> Some(fallback), transition |-> response.transition]
      ELSE IF min_allowed - 2 <= response.timestamp[1]
                /\ response.timestamp[1] <= interrupt_timestamp
      THEN [timestamp |-> response.timestamp, transition |-> response.transition]
      ELSE [timestamp |-> Some(fallback), transition |-> response.transition]

\* the (timestamp, transition) find_rewind_point returns
FindRewindPoint(interrupt_timestamp, transcript_context, response) ==
  LET fallback == Max0(interrupt_timestamp - 10)
      min_allowed == Max0(interrupt_timestamp - 30)
  IN  IF ~transcript_context \/ response.error
      THEN [timestamp |-> Some(fallback), transition |-> None]
      ELSE IF response.timestamp = None
      THEN [timestamp |-> Some(fallback), transition |-> response.transition]
      ELSE IF min_allowed - 2 <= response.timestamp[1]
                /\ response.timestamp[1] <= interrupt_timestamp
      THEN [timestamp |-> response.timestamp, transition |-> response.transition]
      ELSE [timestamp |-> Some(fallback), transition |-> response.transition]

(***************************************************************************)
(* handle_talk: the main thread outside generate_host_response.            *)
(***************************************************************************)
turnVars ==
  <<gen, n_deltas, stream_ended, turn_failed, audio_queue, playback_thread,
    stream, item, synth_log, put_log, play_log>>

Talk_NoPause ==
  /\ pc = "talk"
  /\ spotify_calls' = <<>>
  /\ pc' = "capture"
  /\ UNCHANGED <<standaloneVars, was_playing, podcast_context, has_transcript, current_voice_ids,
                 first_user_question, rewind_starts, resume_steps,
                 transition_stream, resolverVars, turn_count, should_exit,
                 turnVars>>

\* lines 276-348: status, pause if playing, transcript context
Talk ==
  /\ pc = "talk"
  /\ spotify_calls' = IF was_playing THEN <<"pause">> ELSE <<>>
  /\ pc' = "capture"
  /\ UNCHANGED <<standaloneVars, was_playing, podcast_context, has_transcript, current_voice_ids,
                 first_user_question, rewind_starts, resume_steps,
                 transition_stream, resolverVars, turn_count, should_exit,
                 turnVars>>

\* lines 350-362: a turn begins and nothing is heard within the timeout
CaptureSilence ==
  /\ pc = "capture"
  /\ turn_count' = turn_count + 1
  /\ pc' = "resume"
  /\ UNCHANGED <<standaloneVars, sessionVars, resolverVars, should_exit, turnVars>>

StartsResolver_EveryTurn == podcast_context /\ has_transcript

StartsResolver_WithoutTranscript == ~first_user_question /\ podcast_context

\* lines 368-372: the first question, with a transcript position
StartsResolver == ~first_user_question /\ podcast_context /\ has_transcript

\* lines 350-442: a turn begins and speech is transcribed; the first
\* question starts the resolver thread if there is a transcript position;
\* without voice clones the loop ends
CaptureSpeech ==
  /\ pc = "capture"
  /\ turn_count < MaxTurns
  /\ turn_count' = turn_count + 1
  /\ first_user_question' = TRUE
  /\ IF StartsResolver
     THEN /\ \E t \in InterruptTimes :
               rewind_thread' = [IdleResolver EXCEPT !.at = "find", !.interrupt = t]
          /\ rewind_starts' = rewind_starts + 1
     ELSE UNCHANGED <<rewind_thread, rewind_starts>>
  /\ pc' = IF current_voice_ids # <<>> THEN "gen_start" ELSE "resume"
  /\ UNCHANGED <<standaloneVars, was_playing, podcast_context, has_transcript, current_voice_ids,
                 spotify_calls, resume_steps, transition_stream, rewind_result,
                 should_exit, turnVars>>

AfterResponse_ExitReturns ==
  /\ pc = "ht_returned"
  /\ pc' = IF should_exit THEN "done" ELSE "capture"
  /\ gen' = InitialLocals
  /\ n_deltas' = 0
  /\ stream_ended' = FALSE
  /\ turn_failed' = FALSE
  /\ synth_log' = <<>>
  /\ put_log' = <<>>
  /\ play_log' = <<>>
  /\ UNCHANGED <<standaloneVars, sessionVars, resolverVars, turn_count, should_exit, audio_queue,
                 playback_thread, stream, item>>

\* lines 436-445: break on True, otherwise the next turn; the locals of
\* the call are gone and the logs of the turn are closed
AfterResponse ==
  /\ pc = "ht_returned"
  /\ pc' = IF should_exit THEN "resume" ELSE "capture"
  /\ gen' = InitialLocals
  /\ n_deltas' = 0
  /\ stream_ended' = FALSE
  /\ turn_failed' = FALSE
  /\ synth_log' = <<>>
  /\ put_log' = <<>>
  /\ play_log' = <<>>
  /\ UNCHANGED <<standaloneVars, sessionVars, resolverVars, turn_count, should_exit, audio_queue,
                 playback_thread, stream, item>>

\* the steps of the resume block not yet reached
NoSteps == [join |-> "none", transition |-> "none", resume |-> "none"]

ResumeJoin_Always ==
  /\ pc = "resume"
  /\ pc' = "resume_transition"
  /\ resume_steps' = [resume_steps EXCEPT !.join =
                        IF rewind_thread.at \in {"unstarted", "finished"}
                        THEN "returned" ELSE "timed_out"]
  /\ UNCHANGED <<standaloneVars, was_playing, podcast_context, has_transcript, current_voice_ids,
                 first_user_question, rewind_starts, spotify_calls,
                 transition_stream, resolverVars, turn_count, should_exit,
                 turnVars>>

\* lines 448-454: nothing to resume; or the resolver is not running (never
\* started, or ended) and no wait is needed or the join returns; or the
\* resolver is still running when the 10 s of the join are over
ResumeJoin ==
  /\ pc = "resume"
  /\ IF ~was_playing
     THEN pc' = "done" /\ UNCHANGED resume_steps
     ELSE /\ pc' = "resume_transition"
          /\ resume_steps' = [resume_steps EXCEPT !.join =
                                IF rewind_thread.at \in {"unstarted", "finished"}
                                THEN "returned" ELSE "timed_out"]
  /\ UNCHANGED <<standaloneVars, was_playing, podcast_context, has_transcript, current_voice_ids,
                 first_user_question, rewind_starts, spotify_calls,
                 transition_stream, resolverVars, turn_count, should_exit,
                 turnVars>>

\* lines 456-479: rewind_result["audio_file"] is read; no clip, or the clip
\* is decoded and the output stream opened, or that raises and is printed
TransitionOpen ==
  /\ pc = "resume_transition"
  /\ IF rewind_result.audio_file = None
     THEN /\ pc' = "resume_seek"
          /\ resume_steps' = [resume_steps EXCEPT !.transition = "absent"]
          /\ UNCHANGED transition_stream
     ELSE \/ /\ pc' = "resume_playing"
             /\ transition_stream' = TRUE
             /\ UNCHANGED resume_steps
          \/ /\ pc' = "resume_seek"
             /\ resume_steps' = [resume_steps EXCEPT !.transition = "failed"]
             /\ UNCHANGED transition_stream
  /\ UNCHANGED <<standaloneVars, was_playing, podcast_context, has_transcript, current_voice_ids,
                 first_user_question, rewind_starts, spotify_calls, resolverVars,
                 turn_count, should_exit, turnVars>>

\* lines 481-496: the frames are written and the stream closed; or a write
\* raises, which is printed, and the stream is left open
TransitionPlayed ==
  /\ pc = "resume_playing"
  /\ pc' = "resume_seek"
  /\ \/ /\ transition_stream' = FALSE
        /\ resume_steps' = [resume_steps EXCEPT !.transition = "played"]
     \/ /\ resume_steps' = [resume_steps EXCEPT !.transition = "failed"]
        /\ UNCHANGED transition_stream
  /\ UNCHANGED <<standaloneVars, was_playing, podcast_context, has_transcript, current_voice_ids,
                 first_user_question, rewind_starts, spotify_calls, resolverVars,
                 turn_count, should_exit, turnVars>>

\* lines 498-506: rewind_result["timestamp"] is read; a truthy timestamp
\* calls self.spotify.seek_to_position, which SpotifyClient does not define:
\* AttributeError leaves handle_talk
ResumeSeek ==
  /\ pc = "resume_seek"
  /\ IF rewind_result.timestamp # None /\ rewind_result.timestamp # Some(0)
     THEN /\ spotify_calls' = Append(spotify_calls, "seek_to_position")
          /\ pc' = "raised"
     ELSE /\ pc' = "resume_play"
          /\ UNCHANGED spotify_calls
  /\ UNCHANGED <<standaloneVars, was_playing, podcast_context, has_transcript, current_voice_ids,
                 first_user_question, rewind_starts, resume_steps,
                 transition_stream, resolverVars, turn_count, should_exit,
                 turnVars>>

ResumePlay_RetriesOnce ==
  /\ pc = "resume_play"
  /\ spotify_calls' = Append(spotify_calls, "resume")
  /\ \E success \in BOOLEAN :
       /\ resume_steps' = [resume_steps EXCEPT !.resume =
                             IF success THEN "resumed" ELSE "failed"]
       /\ pc' = IF success \/ resume_steps.resume = "failed"
                THEN "done" ELSE "resume_play"
  /\ UNCHANGED <<standaloneVars, was_playing, podcast_context, has_transcript, current_voice_ids,
                 first_user_question, rewind_starts,
                 transition_stream, resolverVars, turn_count, should_exit,
                 turnVars>>

\* lines 508-518: self.spotify.resume is called once; it returns True, or
\* False (403, 404 no active device, another status, no response), which
\* is printed; handle_talk returns
ResumePlay ==
  /\ pc = "resume_play"
  /\ spotify_calls' = Append(spotify_calls, "resume")
  /\ \E success \in BOOLEAN :
       resume_steps' = [resume_steps EXCEPT !.resume =
                          IF success THEN "resumed" ELSE "failed"]
  /\ pc' = "done"
  /\ UNCHANGED <<standaloneVars, was_playing, podcast_context, has_transcript, current_voice_ids,
                 first_user_question, rewind_starts,
                 transition_stream, resolverVars, turn_count, should_exit,
                 turnVars>>

(***************************************************************************)
(* background_rewind_and_audio: the resolver thread.                       *)
(***************************************************************************)
RewindFindOver_TimestampNotStored(responses) ==
  /\ rewind_thread.at = "find"
  /\ \E response \in responses, transcript_context \in BOOLEAN :
       LET found == FindRewindPoint(rewind_thread.interrupt, transcript_context,
                                    response)
       IN  /\ UNCHANGED rewind_result
           /\ rewind_thread' = [rewind_thread EXCEPT
                                  !.at = "transition",
                                  !.transition = found.transition,
                                  !.response = response,
                                  !.transcript_context = transcript_context]
  /\ UNCHANGED <<standaloneVars, pc, sessionVars, turn_count, should_exit, turnVars>>

\* lines 379-384: find_rewind_point runs on the transcript it finds and the
\* response the model gives, returns, and the timestamp is stored
RewindFindOver(responses) ==
  /\ rewind_thread.at = "find"
  /\ \E response \in responses, transcript_context \in BOOLEAN :
       LET found == FindRewindPoint(rewind_thread.interrupt, transcript_context,
                                    response)
       IN  /\ rewind_result' = [rewind_result EXCEPT !.timestamp = found.timestamp]
           /\ rewind_thread' = [rewind_thread EXCEPT
                                  !.at = "transition",
                                  !.transition = found.transition,
                                  !.response = response,
                                  !.transcript_context = transcript_context]
  /\ UNCHANGED <<standaloneVars, pc, sessionVars, turn_count, should_exit, turnVars>>

\* the resolver of a session
RewindFind == RewindFindOver(ModelResponses)

\* the resolver of the specification of find_rewind_point
RewindFindAny == RewindFindOver(AllResponses)

\* the test of line 388
SynthesizesTransition_Always == current_voice_ids # <<>>

\* line 388: `if transition and self.current_voice_ids:`
SynthesizesTransition ==
  rewind_thread.transition # None /\ current_voice_ids # <<>>

\* line 385, and the test of line 388; what find_rewind_point ran on is
\* forgotten unless the transition it returned is synthesized
RewindTransition ==
  /\ rewind_thread.at = "transition"
  /\ rewind_result' = [rewind_result EXCEPT !.transition = rewind_thread.transition]
  /\ rewind_thread' =
       IF SynthesizesTransition
       THEN [rewind_thread EXCEPT !.at = "tts"]
       ELSE [rewind_thread EXCEPT !.at = "finished",
                                  !.response = NoResponse,
                                  !.transcript_context = FALSE]
  /\ UNCHANGED <<standaloneVars, pc, sessionVars, turn_count, should_exit, turnVars>>

\* lines 389-419: the transition is synthesized and audio_file stored, or
\* something raises and is printed; the thread ends, and its record keeps
\* what the synthesized transition came from
RewindAudio ==
  /\ rewind_thread.at = "tts"
  /\ rewind_thread' = [rewind_thread EXCEPT !.at = "finished"]
  /\ \/ rewind_result' = [rewind_result EXCEPT !.audio_file = Some("transition.mp3")]
     \/ UNCHANGED rewind_result
  /\ UNCHANGED <<standaloneVars, pc, sessionVars, turn_count, should_exit, turnVars>>

Resolver == RewindFind \/ RewindTransition \/ RewindAudio

(***************************************************************************)
(* voice_detector.py: VoiceActivityDetector.                               *)
(***************************************************************************)
\* __init__, lines 46 and 56-58: a detector with a ring buffer of
\* padding_frames frames
NewDetector(padding_frames) ==
  [padding_frames |-> padding_frames, ring_buffer |-> <<>>,
   triggered |-> FALSE, is_speaking |-> FALSE]

\* collections.deque(maxlen = maxlen).append(x): the oldest element leaves
\* a full deque
DequeAppend(d, x, maxlen) ==
  IF maxlen = 0 THEN <<>>
  ELSE IF Len(d) < maxlen THEN Append(d, x)
  ELSE Append(Tail(d), x)

\* line 108: len([f for f, speech in self.ring_buffer if speech])
NumVoiced(d) == Cardinality({i \in 1..Len(d) : d[i]})

\* line 121: len([f for f, speech in self.ring_buffer if not speech])
NumUnvoiced(d) == Cardinality({i \in 1..Len(d) : ~d[i]})

Threshold_Half(num, maxlen) == 2 * num > maxlen

\* lines 111 and 124: num > 0.9 * self.ring_buffer.maxlen; the float
\* product decides as the exact one does for every maxlen below 200
Threshold(num, maxlen) == 10 * num > 9 * maxlen

\* lines 100-130, one frame read and classified: it is appended to the ring
\* buffer; past the threshold the flags flip, the callback is invoked and,
\* unless the callback raised (caught at 132), the buffer is cleared
ProcessFrame ==
  /\ Len(callbacks) < MaxCallbacks
  /\ \E is_speech \in BOOLEAN, raised \in BOOLEAN :
       LET buf == DequeAppend(vad.ring_buffer, is_speech, vad.padding_frames)
           num == IF vad.triggered THEN NumUnvoiced(buf) ELSE NumVoiced(buf)
       IN  IF Threshold(num, vad.padding_frames)
           THEN /\ vad' = [vad EXCEPT !.triggered = ~vad.triggered,
                                      !.is_speaking = ~vad.triggered,
                                      !.ring_buffer = IF raised THEN buf ELSE <<>>]
                /\ callbacks' = Append(callbacks,
                     [name |-> IF vad.triggered THEN "speech_end" ELSE "speech_start",
                      num |-> num])
           ELSE /\ ~raised
                /\ vad' = [vad EXCEPT !.ring_buffer = buf]
                /\ UNCHANGED callbacks
  /\ UNCHANGED <<pc, sessionVars, resolverVars, turn_count, should_exit, turnVars,
                 voice, transcriptVars>>

(***************************************************************************)
(* main_voice.py: VoiceActivatedController on its detector.                *)
(***************************************************************************)
\* __init__ (19-21) and the detector of run (116-122) before any speech;
\* is_playing is what the Spotify player does, observed is what the last
\* on_speech_start saw in status["is_playing"]
NewController(is_playing) ==
  [triggered |-> FALSE, was_playing_before_speech |-> FALSE,
   is_playing |-> is_playing, observed |-> "none", calls |-> <<>>]

\* lines 58-70, invoked by the detector at line 116: get_playback_status
\* raises (the token refresh of spotify_client.py 154 is outside any try), or
\* reports the player's state, or reports nothing playing because the
\* request failed; a playing player is paused, and pause succeeds or not
on_speech_start ==
  {[voice EXCEPT !.triggered = TRUE, !.observed = "raised"]}
  \cup
  {[voice EXCEPT !.triggered = TRUE, !.observed = "idle",
                 !.was_playing_before_speech = FALSE]}
  \cup
  {[voice EXCEPT !.triggered = TRUE, !.observed = "playing",
                 !.was_playing_before_speech = TRUE,
                 !.is_playing = still_playing,
                 !.calls = Append(@, "pause")] :
     still_playing \in {b \in BOOLEAN : voice.is_playing}}

\* lines 72-82, invoked by the detector at line 129: with the flag set,
\* resume is called; it returns (playing again, or not) and the flag is
\* cleared, or it raises before line 80
on_speech_end ==
  IF voice.was_playing_before_speech
  THEN {[voice EXCEPT !.triggered = FALSE,
                      !.was_playing_before_speech = FALSE,
                      !.is_playing = now_playing,
                      !.calls = Append(@, "resume")] :
          now_playing \in {voice.is_playing, TRUE}}
       \cup
       {[voice EXCEPT !.triggered = FALSE, !.calls = Append(@, "resume")]}
  ELSE {[voice EXCEPT !.triggered = FALSE]}

\* voice_detector.py 105-117: enough voiced frames have come in
SpeechStart ==
  /\ ~voice.triggered
  /\ Len(voice.calls) < MaxVoiceCalls
  /\ voice' \in on_speech_start
  /\ UNCHANGED <<pc, sessionVars, resolverVars, turn_count, should_exit, turnVars,
                 detectorVars, transcriptVars>>

\* voice_detector.py 118-130: enough unvoiced frames have come in
SpeechEnd ==
  /\ voice.triggered
  /\ voice' \in on_speech_end
  /\ UNCHANGED <<pc, sessionVars, resolverVars, turn_count, should_exit, turnVars,
                 detectorVars, transcriptVars>>

\* the listener starts or stops playback in the Spotify application
PlayerToggled ==
  /\ voice' = [voice EXCEPT !.is_playing = ~voice.is_playing]
  /\ UNCHANGED <<pc, sessionVars, resolverVars, turn_count, should_exit, turnVars,
                 detectorVars, transcriptVars>>

(***************************************************************************)
(* transcript_manager.py: TranscriptManager and its cache directory.       *)
(***************************************************************************)
\* two TranscriptManager objects on the same cache_dir
Managers == {1, 2}

\* episode_info: 'show' and 'title'; two spellings of one episode, and
\* another episode of the show
Episodes ==
  { [show |-> <<"A", "b">>, title |-> <<"X">>],
    [show |-> <<"a", "b">>, title |-> <<"x">>],
    [show |-> <<"A", "b">>, title |-> <<"Y">>] }

\* what youtube_matcher.get_transcript can return for the videos found
Transcripts == {"T1", "T2"}

\* line 44 before .lower(): f"{show}|{title}"
Content(episode_info) == episode_info.show \o <<"|">> \o episode_info.title

GetCacheKey_CaseSensitive(episode_info) == Content(episode_info)

\* _get_cache_key, lines 42-45: the md5 digest of the lowered content,
\* which stands for that content (no two contents here share a digest)
GetCacheKey(episode_info) == Lower(Content(episode_info))

\* the names a cache file can have
CacheKeys ==
  {Content(e) : e \in Episodes} \cup {Lower(Content(e)) : e \in Episodes}

\* no file under a key; a file cut short by a failed json.dump; a file
\* holding a transcript
NoFile == [state |-> "absent", transcript |-> None]
CutFile == [state |-> "cut", transcript |-> None]
File(t) == [state |-> "ok", transcript |-> Some(t)]

\* _load_from_cache, lines 61-71: None without a file, None when open or
\* json.load raises, otherwise the transcript of the cached data
LoadFromCache(cache_key) ==
  IF cache[cache_key].state = "ok"
  THEN {cache[cache_key].transcript, None}
  ELSE {None}

\* _save_to_cache, lines 81-87: the file is written; or open raises and
\* nothing changes; or json.dump raises and the file is cut short; either
\* exception is printed and swallowed
SaveToCache(cache_key, t) ==
  { [cache EXCEPT ![cache_key] = File(t)],
    cache,
    [cache EXCEPT ![cache_key] = CutFile] }

\* no load yet
NoLoad ==
  [op |-> "none", manager |-> 0, episode |-> None, result |-> FALSE,
   searched |-> FALSE, fetched |-> FALSE, read_error |-> FALSE, tick |-> 0]

load_transcript_for_episode_ForgetsFirst(m, episode_info) ==
  LET cache_key == GetCacheKey(episode_info)
      miss == [cache |-> cache, transcript |-> None,
               result |-> FALSE, searched |-> TRUE, fetched |-> FALSE,
               read_error |-> cache[cache_key].state = "ok"]
  IN  { [cache |-> cache, transcript |-> cached, result |-> TRUE,
         searched |-> FALSE, fetched |-> FALSE, read_error |-> FALSE] :
          cached \in LoadFromCache(cache_key) \ {None} }
      \cup {miss, [miss EXCEPT !.fetched = TRUE]}
      \cup UNION { { [miss EXCEPT !.fetched = TRUE, !.result = TRUE,
                                  !.transcript = Some(t), !.cache = c] :
                       c \in SaveToCache(cache_key, t) } : t \in Transcripts }

\* load_transcript_for_episode, lines 137-180, called on manager m: what it
\* leaves in the cache and in current_transcript, what it returns, and
\* whether it searched YouTube and fetched a transcript
load_transcript_for_episode(m, episode_info) ==
  LET cache_key == GetCacheKey(episode_info)
      miss == [cache |-> cache, transcript |-> current_transcript[m],
               result |-> FALSE, searched |-> TRUE, fetched |-> FALSE,
               read_error |-> cache[cache_key].state = "ok"]
  IN  \* 144-148: found in the cache
      { [cache |-> cache, transcript |-> cached, result |-> TRUE,
         searched |-> FALSE, fetched |-> FALSE, read_error |-> FALSE] :
          cached \in LoadFromCache(cache_key) \ {None} }
      \* 152-156: no match; 162-166: no transcript
      \cup {miss, [miss EXCEPT !.fetched = TRUE]}
      \* 168-180: saved, as far as the cache allows, and loaded
      \cup UNION { { [miss EXCEPT !.fetched = TRUE, !.result = TRUE,
                                  !.transcript = Some(t), !.cache = c] :
                       c \in SaveToCache(cache_key, t) } : t \in Transcripts }

\* load_transcript_by_video_id, lines 100-124, called on manager m with or
\* without episode_info: nothing fetched and False, or the transcript
\* loaded, cached under the episode if one is given, and True
load_transcript_by_video_id(m, episode_info) ==
  LET none == [cache |-> cache, transcript |-> current_transcript[m],
               result |-> FALSE, searched |-> FALSE, fetched |-> TRUE,
               read_error |-> FALSE]
  IN  {none}
      \cup UNION { { [none EXCEPT !.result = TRUE, !.transcript = Some(t),
                                  !.cache = c] :
                       c \in IF episode_info = None THEN {cache}
                             ELSE SaveToCache(GetCacheKey(episode_info[1]), t) } :
                   t \in Transcripts }

\* a call of load_transcript_for_episode
LoadTranscriptForEpisode ==
  /\ \E m \in Managers, episode_info \in Episodes :
       \E out \in load_transcript_for_episode(m, episode_info) :
         /\ cache' = out.cache
         /\ current_transcript' = [current_transcript EXCEPT ![m] = out.transcript]
         /\ loaded' = IF out.result THEN loaded \cup {episode_info} ELSE loaded
         /\ last_load' = [op |-> "for_episode", manager |-> m,
                          episode |-> Some(episode_info), result |-> out.result,
                          searched |-> out.searched, fetched |-> out.fetched,
                          read_error |-> out.read_error,
                          tick |-> 1 - last_load.tick]
  /\ UNCHANGED <<pc, sessionVars, resolverVars, turn_count, should_exit, turnVars,
                 detectorVars, voice>>

\* a call of load_transcript_by_video_id
LoadTranscriptByVideoId ==
  /\ \E m \in Managers, episode_info \in {None} \cup {Some(e) : e \in Episodes} :
       \E out \in load_transcript_by_video_id(m, episode_info) :
         /\ cache' = out.cache
         /\ current_transcript' = [current_transcript EXCEPT ![m] = out.transcript]
         /\ last_load' = [op |-> "by_video_id", manager |-> m,
                          episode |-> episode_info, result |-> out.result,
                          searched |-> out.searched, fetched |-> out.fetched,
                          read_error |-> out.read_error,
                          tick |-> 1 - last_load.tick]
  /\ UNCHANGED <<pc, sessionVars, resolverVars, turn_count, should_exit, turnVars,
                 detectorVars, voice, loaded>>

\* clear_cache, lines 217-221: every file of cache_dir is removed
ClearCache ==
  /\ \E k \in CacheKeys : cache[k] # NoFile
  /\ cache' = [k \in CacheKeys |-> NoFile]
  /\ UNCHANGED <<pc, sessionVars, resolverVars, turn_count, should_exit, turnVars,
                 detectorVars, voice, current_transcript, last_load, loaded>>

\* __init__, lines 24-30: a manager is replaced by a new TranscriptManager
\* on the same cache directory
NewManager ==
  /\ \E m \in Managers :
       /\ current_transcript[m] # None
       /\ current_transcript' = [current_transcript EXCEPT ![m] = None]
  /\ UNCHANGED <<pc, sessionVars, resolverVars, turn_count, should_exit, turnVars,
                 detectorVars, voice, cache, last_load, loaded>>

\* has_transcript, line 213
HasTranscript(m) == current_transcript[m] # None

\* get_text_at_timestamp, lines 193-200: None without a transcript,
\* otherwise what find_transcript_at_timestamp reads in current_transcript
GetTextAtTimestamp(m, timestamp_seconds) ==
  IF current_transcript[m] = None THEN None
  ELSE Some([transcript |-> current_transcript[m][1], at |-> timestamp_seconds])

(***************************************************************************)
(* Specifications.                                                         *)
(***************************************************************************)
NoThreads == [k \in Turns |-> "unstarted"]

TurnInit ==
  /\ gen = InitialLocals
  /\ n_deltas = 0
  /\ stream_ended = FALSE
  /\ turn_failed = FALSE
  /\ audio_queue = [k \in Turns |-> <<>>]
  /\ playback_thread = NoThreads
  /\ stream = [k \in Turns |-> FALSE]
  /\ item = [k \in Turns |-> Sentinel]
  /\ synth_log = <<>>
  /\ put_log = <<>>
  /\ play_log = <<>>

\* no detector, controller or transcript manager takes part
StandaloneIdle ==
  /\ vad = NewDetector(0)
  /\ callbacks = <<>>
  /\ voice = NewController(FALSE)
  /\ cache = [k \in CacheKeys |-> NoFile]
  /\ current_transcript = [m \in Managers |-> None]
  /\ last_load = NoLoad
  /\ loaded = {}

\* a session: handle_talk is entered from the command loop
Init ==
  /\ StandaloneIdle
  /\ pc = "talk"
  /\ was_playing \in BOOLEAN
  /\ podcast_context \in BOOLEAN
  /\ has_transcript \in BOOLEAN
  /\ current_voice_ids \in {<<>>, <<SpeakerA>>, <<SpeakerA, SpeakerB>>}
  /\ turn_count = 0
  /\ first_user_question = FALSE
  /\ should_exit = FALSE
  /\ rewind_thread = IdleResolver
  /\ rewind_result = [timestamp |-> None, transition |-> None, audio_file |-> None]
  /\ rewind_starts = 0
  /\ spotify_calls = <<>>
  /\ resume_steps = NoSteps
  /\ transition_stream = FALSE
  /\ TurnInit

Next ==
  \/ Talk
  \/ CaptureSilence
  \/ CaptureSpeech
  \/ GenStart
  \/ StreamText
  \/ Synthesize
  \/ StreamEnd
  \/ StreamError
  \/ PutSentinel
  \/ JoinPlayback
  \/ AfterResponse
  \/ ResumeJoin
  \/ TransitionOpen
  \/ TransitionPlayed
  \/ ResumeSeek
  \/ ResumePlay
  \/ Consumer
  \/ Resolver

Spec == Init /\ [][Next]_vars

\* one call of generate_host_response, as the first turn of a session
\* without a transcript, over the larger set of deltas
TurnSpecInit ==
  /\ StandaloneIdle
  /\ pc = "gen_start"
  /\ was_playing \in BOOLEAN
  /\ podcast_context = FALSE
  /\ has_transcript = FALSE
  /\ current_voice_ids \in {<<SpeakerA>>, <<SpeakerA, SpeakerB>>}
  /\ turn_count = 1
  /\ first_user_question = TRUE
  /\ should_exit = FALSE
  /\ rewind_thread = IdleResolver
  /\ rewind_result = [timestamp |-> None, transition |-> None, audio_file |-> None]
  /\ rewind_starts = 0
  /\ spotify_calls = IF was_playing THEN <<"pause">> ELSE <<>>
  /\ resume_steps = NoSteps
  /\ transition_stream = FALSE
  /\ TurnInit

TurnNext ==
  \/ GenStart
  \/ TurnStreamText
  \/ Synthesize
  \/ StreamEnd
  \/ StreamError
  \/ PutSentinel
  \/ JoinPlayback
  \/ Consumer

TurnSpec == TurnSpecInit /\ [][TurnNext]_vars

\* the steps the main thread is sure to take inside generate_host_response:
\* every call returns or raises, and the stream, being finite, ends; how
\* many deltas come before its end is left open
Producer ==
  \/ GenStart
  \/ Synthesize
  \/ StreamEnd
  \/ StreamError
  \/ PutSentinel
  \/ JoinPlayback

\* one call of generate_host_response in which both threads keep running:
\* the main thread takes its next step whenever it has one, and so does the
\* consumer
TurnFairSpec ==
  /\ TurnSpecInit
  /\ [][TurnNext]_vars
  /\ WF_vars(Producer)
  /\ WF_vars(Consumer)

SegmentNext ==
  \/ GenStart
  \/ SegmentStreamText
  \/ Synthesize
  \/ StreamEnd
  \/ StreamError
  \/ PutSentinel
  \/ JoinPlayback
  \/ Consumer

\* one call of generate_host_response over the deltas of the segmenter,
\* with nothing playing when the listener spoke
SegmentSpecInit == TurnSpecInit /\ ~was_playing

SegmentSpec == SegmentSpecInit /\ [][SegmentNext]_vars

\* the resolver thread alone, started at any second of the episode up to
\* MaxInterrupt, over every response of the model
RewindSpecInit ==
  /\ StandaloneIdle
  /\ pc = "capture"
  /\ was_playing = TRUE
  /\ podcast_context = TRUE
  /\ has_transcript = TRUE
  /\ current_voice_ids \in {<<>>, <<SpeakerA>>}
  /\ turn_count = 1
  /\ first_user_question = TRUE
  /\ should_exit = FALSE
  /\ \E t \in 0..MaxInterrupt :
       rewind_thread = [IdleResolver EXCEPT !.at = "find", !.interrupt = t]
  /\ rewind_result = [timestamp |-> None, transition |-> None, audio_file |-> None]
  /\ rewind_starts = 1
  /\ spotify_calls = <<"pause">>
  /\ resume_steps = NoSteps
  /\ transition_stream = FALSE
  /\ TurnInit

RewindNext ==
  \/ RewindFindAny
  \/ RewindTransition
  \/ RewindAudio

RewindSpec == RewindSpecInit /\ [][RewindNext]_vars

\* no session of main_cli.py takes part
CliIdle ==
  /\ pc = "done"
  /\ was_playing = FALSE
  /\ podcast_context = FALSE
  /\ has_transcript = FALSE
  /\ current_voice_ids = <<>>
  /\ turn_count = 1
  /\ first_user_question = FALSE
  /\ should_exit = FALSE
  /\ rewind_thread = IdleResolver
  /\ rewind_result = [timestamp |-> None, transition |-> None, audio_file |-> None]
  /\ rewind_starts = 0
  /\ spotify_calls = <<>>
  /\ resume_steps = NoSteps
  /\ transition_stream = FALSE
  /\ TurnInit

\* a detector of 1, 2 or MaxPaddingFrames frames of padding listens
DetectorSpecInit ==
  /\ CliIdle
  /\ \E padding_frames \in {1, 2, MaxPaddingFrames} : vad = NewDetector(padding_frames)
  /\ callbacks = <<>>
  /\ voice = NewController(FALSE)
  /\ cache = [k \in CacheKeys |-> NoFile]
  /\ current_transcript = [m \in Managers |-> None]
  /\ last_load = NoLoad
  /\ loaded = {}

DetectorNext == ProcessFrame

DetectorSpec == DetectorSpecInit /\ [][DetectorNext]_vars

\* main_voice.py runs: the controller on its detector, the player playing
\* or not
VoiceSpecInit ==
  /\ CliIdle
  /\ vad = NewDetector(0)
  /\ callbacks = <<>>
  /\ \E is_playing \in BOOLEAN : voice = NewController(is_playing)
  /\ cache = [k \in CacheKeys |-> NoFile]
  /\ current_transcript = [m \in Managers |-> None]
  /\ last_load = NoLoad
  /\ loaded = {}

VoiceNext ==
  \/ SpeechStart
  \/ SpeechEnd
  \/ PlayerToggled

VoiceSpec == VoiceSpecInit /\ [][VoiceNext]_vars

\* transcript managers on an empty cache directory
TranscriptSpecInit ==
  /\ CliIdle
  /\ StandaloneIdle

TranscriptNext ==
  \/ LoadTranscriptForEpisode
  \/ LoadTranscriptByVideoId
  \/ ClearCache
  \/ NewManager

TranscriptSpec == TranscriptSpecInit /\ [][TranscriptNext]_vars

(***************************************************************************)
(* Properties of one turn (TurnSpec).                                      *)
(***************************************************************************)
\* the clips the consumer of this turn has taken from the queue, in order
Taken == [i \in 1..Len(play_log) |-> play_log[i].clip]

InHand(k) == IF playback_thread[k] = "playing" THEN <<item[k]>> ELSE <<>>

\* the exit token, in any letter casing, is in the accumulated text
ExitTokenSeen ==
  \E i \in 1..(Len(gen.full_response) - 7) :
    Lower(SubSeq(gen.full_response, i, i + 7))
      = <<"[", "r", "e", "t", "u", "r", "n", "]">>

\* C1: the consumer takes and plays the clips of a turn in the order the
\* producer put them: at every moment the clips played so far, the clip
\* being played and the clips still queued are, in that order, exactly the
\* clips put so far
C1_PlaybackOrderIsPutOrder ==
  InTurn => Taken \o InHand(turn_count) \o Clips(audio_queue[turn_count]) = put_log

\* two different clips were played, the second while the producer was
\* still busy with the stream
C1_Witness ==
  /\ pc \in {"gen_stream", "gen_tts"}
  /\ Len(play_log) >= 2
  /\ play_log[1].clip # play_log[2].clip
  /\ play_log[1].ok /\ play_log[2].ok

\* C5: once the exit token (any casing) is in the accumulated text, the
\* turn is marked for return, nothing of the detecting delta is cut into
\* chunks, no further delta is read, no chunk is synthesized or enqueued,
\* and the call returns True
C5_ExitTokenStopsTheTurn ==
  /\ [](ExitTokenSeen =>
          /\ gen.should_return
          /\ gen.chunks = <<>>
          /\ pc \in {"gen_put", "gen_join", "ht_returned"}
          /\ (pc = "ht_returned" => should_exit /\ ~turn_failed))
  /\ [][ExitTokenSeen =>
          /\ n_deltas' = n_deltas
          /\ gen'.full_response = gen.full_response
          /\ synth_log' = synth_log
          /\ put_log' = put_log]_vars

\* the call returned True on a token that is not in upper case, after
\* chunks had been enqueued
C5_Witness ==
  /\ pc = "ht_returned"
  /\ should_exit
  /\ ExitTokenSeen
  /\ ~ReturnDetected_CaseSensitive(gen.full_response)
  /\ put_log # <<>>

C7_SynthesisFailureSkipsOneChunk ==
  (/\ pc = "ht_returned"
   /\ \E i \in 1..Len(synth_log) :
        ~synth_log[i].ok /\ synth_log[i].chunk.voice_id # NoSpeaker) =>
    /\ Tail(gen.chunks) = <<>>
    /\ stream_ended
    /\ playback_thread[turn_count] = "finished"

\* C8: the sequence numbers of the chunks handed to synthesis in a turn are
\* 1, 2, 3, ... in order, the chunks cut but not yet synthesized continue
\* the count, whatever the deltas and the speakers, the final chunk included
C8_SequenceNumbersGapless ==
  /\ \A i \in 1..Len(synth_log) : synth_log[i].chunk.seq = i
  /\ \A j \in 1..Len(gen.chunks) :
       gen.chunks[j].seq = Len(put_log) + j

\* two speakers, and the rest of the buffer was synthesized as the final
\* chunk after at least one other chunk
C8_Witness ==
  /\ Len(current_voice_ids) > 1
  /\ stream_ended
  /\ pc = "gen_put"
  /\ Strip(gen.text_buffer) # <<>>
  /\ Len(put_log) >= 2
  /\ put_log[Len(put_log)].text = Strip(gen.text_buffer)

\* the (speaker, text) of the chunks
SpokenAs(chunks) ==
  [i \in 1..Len(chunks) |-> [speaker |-> chunks[i].speaker, text |-> chunks[i].text]]

\* C9 as stated: the chunks and the exit signal of a turn in which nothing
\* failed are those of the same text arriving as one single delta
C9_ChunkingInvariant ==
  (pc = "ht_returned" /\ ~turn_failed) =>
    LET whole == RunStream(<<gen.full_response>>, current_voice_ids)
    IN  /\ SpokenAs(put_log) = SpokenAs(whole.chunks)
        /\ whole.ret = IF should_exit THEN "True" ELSE "False"

(***************************************************************************)
(* Properties of a session (Spec).                                         *)
(***************************************************************************)
\* C2 as stated: whenever generate_host_response hands control back to the
\* turn loop, the playback thread it started has ended (it ends only on the
\* sentinel)
C2_ConsumerEndedAtReturn ==
  (pc = "ht_returned" /\ playback_thread[turn_count] # "unstarted") =>
    playback_thread[turn_count] = "finished"

\* C3 as stated: once the capture of a later turn has begun (turn_count has
\* moved on), no clip of an earlier turn is being played
C3_NoPlaybackOfEarlierTurns ==
  \A k \in Turns : k < turn_count => playback_thread[k] # "playing"

\* C4 as stated: at most one playback thread is alive, at most one output
\* stream is open, and the transition clip is not played while one is
C4_OneHolderOfTheAudioDevice ==
  /\ Cardinality({k \in Turns : Alive(k)}) <= 1
  /\ Cardinality({k \in Turns : stream[k]}) <= 1
  /\ transition_stream => \A k \in Turns : ~stream[k]

\* C10: the resolver thread is started at most once in a session, and only
\* in the step that records the first captured question
C10_ResolverStartedAtMostOnce ==
  /\ [](rewind_starts <= 1)
  /\ [][rewind_starts' # rewind_starts =>
          ~first_user_question /\ first_user_question' /\ turn_count' = 1]_vars

\* the second turn captured speech in a session whose first turn started
\* the resolver
C10_Witness ==
  /\ turn_count = 2
  /\ pc = "gen_start"
  /\ rewind_starts = 1

(***************************************************************************)
(* Properties of the resume block of handle_talk (Spec).                   *)
(***************************************************************************)
\* the resume block has read rewind_result["audio_file"] (line 457)
ReadStarted == pc = "resume_playing" \/ resume_steps.transition # "none"

\* the code has called self.spotify.seek_to_position
SeekCalled == \E i \in 1..Len(spotify_calls) : spotify_calls[i] = "seek_to_position"

\* the code has called self.spotify.resume
ResumeCalled == \E i \in 1..Len(spotify_calls) : spotify_calls[i] = "resume"

\* C11 as stated: once the resume block has started to read rewind_result,
\* no field of rewind_result is written any more, also after a join that
\* reached its bound
C11_NoWriteOnceResumeReads ==
  [][ReadStarted => rewind_result' = rewind_result]_vars

\* C12 as stated: after a join that timed out no transition clip is played
\* and no seek is made
C12_TimedOutJoinNoTransitionNoSeek ==
  resume_steps.join = "timed_out" =>
    /\ pc # "resume_playing"
    /\ resume_steps.transition \in {"none", "absent"}
    /\ ~SeekCalled

\* C13 as stated: when was_playing is true handle_talk ends normally,
\* whatever failed in the resume block, and its last call on the player is
\* resume
C13_ResumeReachedWhateverFails ==
  (was_playing /\ pc \in {"done", "raised"}) =>
    /\ pc = "done"
    /\ spotify_calls # <<>>
    /\ spotify_calls[Len(spotify_calls)] = "resume"

\* C14: if nothing was playing when handle_talk began, it makes no pause,
\* seek or resume call on the player and runs no step of the resume block
C14_NothingPlayingNoPlayerCalls ==
  ~was_playing =>
    /\ spotify_calls = <<>>
    /\ resume_steps = NoSteps
    /\ pc \notin {"resume_transition", "resume_playing", "resume_seek",
                  "resume_play", "raised"}

\* nothing was playing, two turns were held and the resolver has stored a
\* timestamp to seek to and a transition clip: handle_talk is over
C14_Witness ==
  /\ ~was_playing
  /\ pc = "done"
  /\ turn_count = 2
  /\ rewind_thread.at = "finished"
  /\ rewind_result.timestamp = Some(8)
  /\ rewind_result.audio_file # None

\* C19 as stated: the step of the resume block that decides on the seek
\* calls seek exactly when rewind_result holds a timestamp, second 0
\* included
C19_SeekIffTimestampResolved ==
  [][(pc = "resume_seek" /\ pc' # "resume_seek") =>
       ((rewind_result.timestamp # None)
          <=> spotify_calls' = Append(spotify_calls, "seek_to_position"))]_vars

\* the parts of C20 that do not depend on how the transition playback went:
\* pause is the first call and precedes the first capture, the join
\* precedes the read and the playback of the transition clip, the clip is
\* not being played when the seek or the resume is called, no seek follows
\* a resume, and resume is called once the turn loop and the block are over
StepsInOrder ==
  /\ (was_playing /\ pc # "talk") =>
       spotify_calls # <<>> /\ spotify_calls[1] = "pause"
  /\ ReadStarted => resume_steps.join # "none"
  /\ (SeekCalled \/ ResumeCalled) =>
       /\ resume_steps.join # "none"
       /\ resume_steps.transition # "none"
       /\ pc \in {"done", "raised"}
  /\ \A i, j \in 1..Len(spotify_calls) :
       (spotify_calls[i] = "resume" /\ spotify_calls[j] = "seek_to_position") => j < i

\* C20 as stated: the steps are in order, and a transition clip that is
\* present has been played fully before a seek or resume is called
C20_ResumeStepsOrderedClipPlayedFully ==
  /\ StepsInOrder
  /\ (SeekCalled \/ ResumeCalled) => resume_steps.transition \in {"absent", "played"}

\* C20 as amended: the steps are in order, and a transition clip that is
\* present has been played before a seek or resume is called, fully unless
\* its playback raised
C20_ResumeStepsOrderedClipPlayedOrFailed ==
  /\ StepsInOrder
  /\ (SeekCalled \/ ResumeCalled) =>
       resume_steps.transition \in {"absent", "played", "failed"}
  /\ (resume_steps.transition = "played") => ~transition_stream

\* the join returned, the clip was played fully and the seek was called,
\* after the pause
C20_Witness ==
  /\ resume_steps.join = "returned"
  /\ resume_steps.transition = "played"
  /\ spotify_calls = <<"pause", "seek_to_position">>

(***************************************************************************)
(* Properties of find_rewind_point (RewindSpec).  In a state where the     *)
(* resolver is at "transition" find_rewind_point has just returned:        *)
(* rewind_thread holds what it ran on and the transition it returned,      *)
(* rewind_result.timestamp the timestamp it returned.                      *)
(***************************************************************************)
Returned == rewind_thread.at = "transition"

\* the model was asked and answered with a TIMESTAMP line
Suggested ==
  /\ Returned
  /\ rewind_thread.transcript_context
  /\ ~rewind_thread.response.error
  /\ rewind_thread.response.timestamp # None

\* the model was asked and its answer holds no TIMESTAMP line
Unparsed ==
  /\ Returned
  /\ rewind_thread.transcript_context
  /\ ~rewind_thread.response.error
  /\ rewind_thread.response.timestamp = None

\* the model was not asked (no transcript), or the call raised
Errored ==
  /\ Returned
  /\ ~rewind_thread.transcript_context \/ rewind_thread.response.error

\* ten seconds before the interrupt, not before the start of the episode
TenBack ==
  IF rewind_thread.interrupt > 10 THEN rewind_thread.interrupt - 10 ELSE 0

\* C15: whatever the interrupt time and the response of the model, the
\* timestamp find_rewind_point returns lies within
\* [interrupt_time - 32, interrupt_time + 2]
C15_TimestampWithinWindow ==
  rewind_thread.at \notin {"unstarted", "find"} =>
    /\ rewind_result.timestamp # None
    /\ rewind_thread.interrupt - 32 <= rewind_result.timestamp[1]
    /\ rewind_result.timestamp[1] <= rewind_thread.interrupt + 2

\* the model suggested a second later than the window allows and the
\* fallback, which differs from it, was returned
C15_Witness ==
  /\ Suggested
  /\ rewind_thread.response.timestamp[1] > rewind_thread.interrupt + 2
  /\ rewind_thread.interrupt > 10
  /\ rewind_result.timestamp = Some(rewind_thread.interrupt - 10)

\* C16 as stated: a suggested timestamp t is returned itself exactly when
\* interrupt_time - 32 <= t <= interrupt_time + 2
C16_AcceptedIffWithinWidenedWindow ==
  Suggested =>
    ((rewind_result.timestamp = rewind_thread.response.timestamp)
       <=> /\ rewind_thread.interrupt - 32 <= rewind_thread.response.timestamp[1]
           /\ rewind_thread.response.timestamp[1] <= rewind_thread.interrupt + 2)

\* C16 as amended: a suggested timestamp t is returned itself exactly when
\* interrupt_time - 32 <= t <= interrupt_time (the tolerance widens the
\* early end of the window only); otherwise ten seconds back is returned
C16_AcceptedIffNotAfterInterrupt ==
  Suggested =>
    IF /\ rewind_thread.interrupt - 32 <= rewind_thread.response.timestamp[1]
       /\ rewind_thread.response.timestamp[1] <= rewind_thread.interrupt
    THEN rewind_result.timestamp = rewind_thread.response.timestamp
    ELSE rewind_result.timestamp = Some(TenBack)

\* a suggestion 31 seconds before the interrupt, inside the tolerance only,
\* was returned itself
C16_Witness ==
  /\ Suggested
  /\ rewind_thread.response.timestamp[1] = rewind_thread.interrupt - 31
  /\ rewind_result.timestamp = rewind_thread.response.timestamp
  /\ rewind_result.timestamp # Some(TenBack)

\* the suggested timestamp was not accepted
OutOfRange ==
  /\ Suggested
  /\ \/ rewind_thread.response.timestamp[1] < rewind_thread.interrupt - 32
     \/ rewind_thread.response.timestamp[1] > rewind_thread.interrupt

\* C17 as stated: on a suggestion outside the allowed range the timestamp
\* returned is interrupt_time - 10 and the transition returned is the one
\* parsed from the response
C17_OutOfRangeTenBackWithTransition ==
  OutOfRange =>
    /\ rewind_result.timestamp = Some(rewind_thread.interrupt - 10)
    /\ rewind_thread.transition = rewind_thread.response.transition

\* C17 as amended: on a suggestion outside the allowed range the timestamp
\* returned is max(0, interrupt_time - 10) and the transition returned is
\* the one parsed from the response, absent if none was
C17_OutOfRangeClampedTenBackWithTransition ==
  OutOfRange =>
    /\ rewind_result.timestamp = Some(TenBack)
    /\ rewind_thread.transition = rewind_thread.response.transition

\* a suggestion after the interrupt came with a transition, less than ten
\* seconds into the episode: second 0 and the transition were returned
C17_Witness ==
  /\ OutOfRange
  /\ rewind_thread.interrupt < 10
  /\ rewind_thread.response.transition = TransitionText
  /\ rewind_thread.transition = TransitionText
  /\ rewind_result.timestamp = Some(0)

\* C18 as stated: an unparseable response, a timestamp out of window or a
\* failing call gives interrupt_time - 10 and no transition
C18_FallbackWithoutTransition ==
  (Unparsed \/ OutOfRange \/ Errored) =>
    /\ rewind_result.timestamp = Some(rewind_thread.interrupt - 10)
    /\ rewind_thread.transition = None

\* C18 as amended: an unparseable response, a timestamp out of window or a
\* failing call gives max(0, interrupt_time - 10); the transition is absent
\* when the call failed or no transcript was there to ask about, and is
\* otherwise the one parsed from the response (absent if none was)
C18_FallbackTransitionOnlyFromResponse ==
  /\ (Unparsed \/ OutOfRange \/ Errored) => rewind_result.timestamp = Some(TenBack)
  /\ Errored => rewind_thread.transition = None
  /\ (Unparsed \/ OutOfRange) =>
       rewind_thread.transition = rewind_thread.response.transition

\* the call raised with a transcript at hand, later than ten seconds into
\* the episode: ten seconds back and no transition were returned
C18_Witness ==
  /\ Errored
  /\ rewind_thread.transcript_context
  /\ rewind_thread.response.error
  /\ rewind_thread.interrupt > 10
  /\ rewind_result.timestamp = Some(rewind_thread.interrupt - 10)
  /\ rewind_thread.transition = None

(***************************************************************************)
(* Properties of the turn loop of handle_talk.                             *)
(***************************************************************************)
\* control is inside `while True:` (lines 350-445)
LoopStates ==
  {"capture", "gen_start", "gen_stream", "gen_tts", "gen_flush", "gen_put",
   "gen_join", "ht_returned"}

\* C21: every step that leaves the turn loop lands on the resume block; a
\* step that begins a turn either goes on to generation having heard speech
\* or ends the loop with no playback thread started, nothing generated and
\* nothing synthesized for that turn; and once the loop is left nothing is
\* generated or synthesized any more.
C21_LoopEndsAtResume ==
  [][/\ (pc \in LoopStates /\ pc' \notin LoopStates) => pc' = "resume"
     /\ turn_count' # turn_count =>
          /\ pc = "capture"
          /\ \/ pc' = "gen_start" /\ first_user_question'
             \/ /\ pc' = "resume"
                /\ UNCHANGED <<gen, n_deltas, synth_log, put_log, audio_queue,
                               playback_thread>>
     /\ pc \notin LoopStates \cup {"talk"} =>
          /\ pc' \notin LoopStates \cup {"talk"}
          /\ UNCHANGED <<gen, n_deltas, synth_log, put_log, turn_count>>]_vars

\* the second turn hears nothing after a first turn that was answered: the
\* loop has ended at the resume block and the second turn has no thread
C21_Witness ==
  /\ pc = "resume"
  /\ turn_count = 2
  /\ playback_thread[1] # "unstarted"
  /\ playback_thread[2] = "unstarted"
  /\ ~should_exit

(***************************************************************************)
(* Properties of the resolver thread (RewindSpec).                         *)
(***************************************************************************)
\* C22: whatever the model call and the synthesis of the transition did,
\* the resolver thread goes through its steps to its end and never stops
\* anywhere else, and once it has ended rewind_result holds a timestamp:
\* a second of the window the validation accepts, or the fixed-offset
\* fallback.
C22_ResolverEndsWithTimestamp ==
  /\ rewind_thread.at \in {"find", "transition", "tts", "finished"}
  /\ rewind_thread.at = "finished" =>
       /\ rewind_result.timestamp # None
       /\ \/ rewind_result.timestamp = Some(TenBack)
          \/ /\ rewind_thread.interrupt - 32 <= rewind_result.timestamp[1]
             /\ rewind_result.timestamp[1] <= rewind_thread.interrupt

\* the thread has ended after a synthesis of the transition that failed:
\* a transition and a voice, no clip, and a timestamp
C22_Witness ==
  /\ rewind_thread.at = "finished"
  /\ rewind_result.transition # None
  /\ current_voice_ids # <<>>
  /\ rewind_result.audio_file = None
  /\ rewind_result.timestamp # None

\* the timestamp the model gave was accepted by the validation of lines
\* 1119-1124 and is the one stored
TimestampAccepted ==
  /\ rewind_thread.transcript_context
  /\ ~rewind_thread.response.error
  /\ rewind_thread.response.timestamp # None
  /\ Max0(rewind_thread.interrupt - 30) - 2 <= rewind_thread.response.timestamp[1]
  /\ rewind_thread.response.timestamp[1] <= rewind_thread.interrupt
  /\ rewind_result.timestamp = rewind_thread.response.timestamp

\* C30: a transition clip is recorded only when the timestamp of the model
\* was accepted as within the window, never with the fallback timestamp.
C30_ClipOnlyWithAcceptedTimestamp ==
  rewind_result.audio_file # None => TimestampAccepted

\* C30, amended: a transition clip is recorded only when find_rewind_point
\* returned a transition sentence (from a response of the model that was
\* parsed) and a voice is configured, after the timestamp was stored; the
\* timestamp beside it is the accepted one or the fallback.
C30_ClipOnlyWithTransitionAndVoice ==
  rewind_result.audio_file # None =>
    /\ rewind_result.transition # None
    /\ rewind_result.transition = rewind_thread.response.transition
    /\ rewind_thread.transcript_context
    /\ ~rewind_thread.response.error
    /\ current_voice_ids # <<>>
    /\ rewind_result.timestamp # None
    /\ TimestampAccepted \/ rewind_result.timestamp = Some(TenBack)

\* a clip was recorded for a response whose timestamp lies after the
\* interrupt: the timestamp beside the clip is the fallback
C30_Witness ==
  /\ rewind_result.audio_file # None
  /\ rewind_thread.response.timestamp # None
  /\ rewind_thread.response.timestamp[1] > rewind_thread.interrupt
  /\ rewind_result.timestamp = Some(TenBack)

(***************************************************************************)
(* Properties of the segmenter (SegmentSpec).                              *)
(***************************************************************************)
\* the chunks cut so far: synthesized and enqueued, or not yet
Cut == put_log \o gen.chunks

\* text occurs in full and the character behind it, if any, is no terminator
RunComplete(text, full) ==
  \E e \in Len(text)..Len(full) :
    /\ SubSeq(full, e - Len(text) + 1, e) = text
    /\ e < Len(full) => ~IsTerm(full[e + 1])

TwoSentences == GreatQuestion \o <<" ">> \o LetsDigIn

\* C23: while the stream is read, every chunk cut ends with a run of
\* terminators that is complete in the text received, has at least 4
\* characters, and the sequence numbers count the chunks cut and nothing
\* else; and with one speaker the response "Great question. Let's dig in.",
\* however it is cut into deltas, gives the two chunks "Great question."
\* (1) and "Let's dig in." (2), synthesized and taken for playback in that
\* order.
C23_ChunksEndAtCompleteRuns ==
  /\ ~stream_ended =>
       \A i \in 1..Len(Cut) :
         /\ IsTerm(Cut[i].text[Len(Cut[i].text)])
         /\ RunComplete(Cut[i].text, gen.full_response)
         /\ Len(Cut[i].text) >= 4
         /\ Cut[i].seq = i
  /\ ( /\ Len(current_voice_ids) = 1
       /\ gen.full_response = TwoSentences
       /\ pc \in {"gen_stream", "gen_flush", "gen_put", "gen_join", "ht_returned"}
       /\ \A i \in 1..Len(synth_log) : synth_log[i].ok ) =>
       /\ [i \in 1..Len(put_log) |-> <<put_log[i].seq, put_log[i].text>>]
            = << <<1, GreatQuestion>>, <<2, LetsDigIn>> >>
       /\ Len(Taken) <= 2
       /\ \A i \in 1..Len(Taken) : Taken[i] = put_log[i]

\* the characters of s that are neither whitespace nor terminators
Letters(s) ==
  LET Keep(c) == ~IsSpace(c) /\ ~IsTerm(c) IN SelectSeq(s, Keep)

RECURSIVE TextOf(_, _)
\* the texts of the chunks attributed to speaker, one after the other
TextOf(chunks, speaker) ==
  IF chunks = <<>> THEN <<>>
  ELSE (IF Head(chunks).speaker = speaker THEN Head(chunks).text ELSE <<>>)
         \o TextOf(Tail(chunks), speaker)

RECURSIVE SegmentsOf(_, _)
\* the text behind the tags of speaker in a response split at its tags
\* (prefix, speaker, text, speaker, text, ...), one segment after the other
SegmentsOf(parts, speaker) ==
  IF Len(parts) < 3 THEN <<>>
  ELSE (IF Strip(parts[2]) = speaker THEN parts[3] ELSE <<>>)
         \o SegmentsOf(Tail(Tail(parts)), speaker)

\* the response begins with the tag of a known speaker and every tag in it
\* names a known speaker
OnlyKnownTags(full) ==
  LET parts == SplitSpeakers(full)
  IN  /\ Len(parts) >= 3
      /\ Strip(parts[1]) = <<>>
      /\ \A i \in 1..Len(parts) :
           i % 2 = 0 => Strip(parts[i]) \in Range(current_voice_ids)

\* the stream has ended, the rest of the buffer was flushed, and every
\* synthesis of the turn succeeded
AllSpoken ==
  /\ stream_ended
  /\ pc \in {"gen_join", "ht_returned"}
  /\ ~turn_failed

\* C24: no text of an attributed segment is lost: when the stream has ended
\* and everything cut was synthesized, the chunks of each speaker hold all
\* the letters of the segments attributed to that speaker, with one speaker
\* (the whole response is the default speaker's) and with several (the
\* response being made of segments behind tags of known speakers), also
\* when a segment is followed by the next tag before its terminator.
C24_NoAttributedTextLost ==
  AllSpoken =>
    /\ Len(current_voice_ids) = 1 =>
         Letters(TextOf(put_log, current_voice_ids[1])) = Letters(gen.full_response)
    /\ (Len(current_voice_ids) > 1 /\ OnlyKnownTags(gen.full_response)) =>
         \A speaker \in Range(current_voice_ids) :
           Letters(TextOf(put_log, speaker))
             = Letters(SegmentsOf(SplitSpeakers(gen.full_response), speaker))

RECURSIVE IsSubsequence(_, _)
\* the characters of a occur in b in the same order
IsSubsequence(a, b) ==
  IF a = <<>> THEN TRUE
  ELSE IF b = <<>> THEN FALSE
  ELSE IF Head(a) = Head(b) THEN IsSubsequence(Tail(a), Tail(b))
  ELSE IsSubsequence(a, Tail(b))

\* the response from its first speaker tag on
FromFirstTag(full) ==
  SubSeq(full, Len(SplitSpeakers(full)[1]) + 1, Len(full))

\* C25: with more than one speaker, once the response holds a speaker tag
\* every chunk cut is made of text from the first tag on: nothing of the
\* text before the first tag is in any chunk, however the response is cut
\* into deltas.
C25_TextBeforeFirstTagDiscarded ==
  (Len(current_voice_ids) > 1 /\ Len(SplitSpeakers(gen.full_response)) >= 3) =>
    IsSubsequence(Letters(Join([i \in 1..Len(Cut) |-> Cut[i].text])),
                  Letters(FromFirstTag(gen.full_response)))

RECURSIVE UnknownTagsKept(_, _, _)
\* over a response split at its tags (prefix, speaker, text, ...): the text
\* behind an unknown tag is in the chunks of the speaker active before it,
\* if there is one, and a known speaker tagged after an unknown tag has
\* chunks if its segment has text
UnknownTagsKept(parts, active, after_unknown) ==
  IF Len(parts) < 3 THEN TRUE
  ELSE LET name == Strip(parts[2])
           known == name \in Range(current_voice_ids)
       IN  /\ IF known
              THEN (after_unknown /\ Letters(parts[3]) # <<>>) =>
                     TextOf(put_log, name) # <<>>
              ELSE active # NoSpeaker =>
                     IsSubsequence(Letters(parts[3]),
                                   Letters(TextOf(put_log, active)))
           /\ UnknownTagsKept(Tail(Tail(parts)),
                              IF known THEN name ELSE active,
                              after_unknown \/ ~known)

\* C26: with more than one speaker, a tag that names no known speaker never
\* ends the turn (no synthesis is asked for with a voice that was never
\* assigned), and when the stream has ended and everything cut was
\* synthesized, the text behind such a tag was spoken by the speaker active
\* before it, or may be dropped if there was none, and the known speakers
\* tagged after it were spoken.
C26_UnknownTagIsOrdinaryText ==
  Len(current_voice_ids) > 1 =>
    /\ \A i \in 1..Len(synth_log) : synth_log[i].chunk.voice_id # NoSpeaker
    /\ LET parts == SplitSpeakers(gen.full_response)
       IN  (AllSpoken /\ Len(parts) >= 3 /\ Strip(parts[1]) = <<>>) =>
             UnknownTagsKept(parts, NoSpeaker, FALSE)

\* the places in full where a tag naming a known speaker opens, before p
KnownTagsBefore(full, p) ==
  {q \in 1..(p - 1) :
     /\ TagClose(full, q) # 0
     /\ Strip(SubSeq(full, q + 1, TagClose(full, q) - 2)) \in Range(current_voice_ids)}

\* text occurs in full at a place where the most recent tag of a known
\* speaker before it names speaker
SaidBehindTagOf(text, full, speaker) ==
  \E p \in 1..(Len(full) - Len(text) + 1) :
    /\ SubSeq(full, p, p + Len(text) - 1) = text
    /\ KnownTagsBefore(full, p) # {}
    /\ LET q == MaxOf(KnownTagsBefore(full, p))
       IN  Strip(SubSeq(full, q + 1, TagClose(full, q) - 2)) = speaker

\* C27: every chunk synthesized, the final one included, was synthesized
\* with the voice of the speaker it is attributed to; with one speaker that
\* is the configured speaker, with several it is the speaker named by the
\* most recent known tag before the text of the chunk, in a response that
\* holds such tags.
C27_VoiceOfAttributedSpeaker ==
  \A i \in 1..Len(put_log) :
    /\ put_log[i].voice_id = VoiceOf(put_log[i].speaker)
    /\ Len(current_voice_ids) = 1 => put_log[i].speaker = current_voice_ids[1]
    /\ ( /\ Len(current_voice_ids) > 1
         /\ KnownTagsBefore(gen.full_response, Len(gen.full_response) + 1) # {} ) =>
         SaidBehindTagOf(put_log[i].text, gen.full_response, put_log[i].speaker)

(***************************************************************************)
(* Properties of the end of the stream (TurnSpec).                         *)
(***************************************************************************)
\* C28: when the stream has ended without the exit token and the buffer,
\* stripped, is not empty, the buffer was handed to synthesis as one final
\* chunk with the next sequence number and an assigned voice before the
\* sentinel is put; an empty buffer gives no final chunk; and after the exit
\* token nothing more is cut or synthesized.
C28_FlushOneFinalChunk ==
  /\ (stream_ended /\ pc \in {"gen_put", "gen_join", "ht_returned"}) =>
       IF Strip(gen.text_buffer) # <<>>
       THEN /\ synth_log # <<>>
            /\ LET last == synth_log[Len(synth_log)].chunk
               IN  /\ last.text = Strip(gen.text_buffer)
                   /\ last.seq = Len(synth_log)
                   /\ last.voice_id # NoSpeaker
            /\ gen.sentence_count = Len(synth_log)
       ELSE /\ gen.chunks = <<>>
            /\ gen.sentence_count = Len(synth_log)
  /\ (pc \in {"gen_join", "ht_returned"} /\ ~turn_failed) => gen.chunks = <<>>
  /\ gen.should_return =>
       /\ ~stream_ended
       /\ gen.chunks = <<>>
       /\ gen.sentence_count = Len(synth_log)

\* C29: the chunks a delta cuts end with a terminator that the delta
\* brought (their text ends inside the text of the delta), and all of them are
\* synthesized and enqueued before the next delta is read or the end of the
\* stream is seen: nothing cut waits while the stream is read, so the
\* consumer can play a clip while later deltas arrive.
C29_SynthesisInsideTheStreamLoop ==
  [][/\ gen.chunks # <<>> => (n_deltas' = n_deltas /\ stream_ended' = stream_ended)
     /\ n_deltas' # n_deltas =>
          \A j \in 1..Len(gen'.chunks) :
            LET text == gen'.chunks[j].text
            IN  /\ IsTerm(text[Len(text)])
                /\ \E e \in (Len(gen.full_response) + 1)..Len(gen'.full_response) :
                     /\ e >= Len(text)
                     /\ SubSeq(gen'.full_response, e - Len(text) + 1, e) = text
     /\ (put_log' # put_log /\ ~stream_ended) => pc = "gen_tts"]_vars

\* a clip of this turn has been played, the stream has not ended, and a
\* later delta has just cut the next chunk
C29_Witness ==
  /\ ~stream_ended
  /\ pc = "gen_tts"
  /\ gen.chunks # <<>>
  /\ \E i \in 1..Len(play_log) : ~IsSentinel(play_log[i].clip)
  /\ n_deltas >= 2

(***************************************************************************)
(* Properties of the end of handle_talk (Spec).                            *)
(***************************************************************************)
\* the calls of self.spotify.resume made so far
ResumeCalls == {i \in 1..Len(spotify_calls) : spotify_calls[i] = "resume"}

\* C31: handle_talk calls resume at most once in a session, and whatever
\* resume returns, failure for want of an active device included, it has
\* then returned to the command loop and makes no further call to the
\* player.
C31_OneResumeThenReturn ==
  [][/\ Cardinality(ResumeCalls') <= 1
     /\ resume_steps'.resume # "none" =>
          /\ pc' = "done"
          /\ Cardinality(ResumeCalls') = 1
     /\ resume_steps.resume # "none" => UNCHANGED <<pc, spotify_calls, resume_steps>>]_vars

\* resume was called, returned failure, and handle_talk has returned
C31_Witness ==
  /\ resume_steps.resume = "failed"
  /\ pc = "done"
  /\ spotify_calls = <<"pause", "resume">>

(***************************************************************************)
(* Properties of the consumer (TurnSpec).                                  *)
(***************************************************************************)
\* C32: a clip whose playback raises is skipped and the consumer of the
\* turn goes back to the queue; when it has ended, which it does only on
\* the sentinel, it has taken every clip enqueued before the sentinel, the
\* ones after a failed clip included, in the order they were enqueued, and
\* has released the audio stream.
C32_PlaybackErrorSkipsOneClip ==
  [][/\ play_log' # play_log => playback_thread'[turn_count] = "waiting"
     /\ playback_thread'[turn_count] = "finished" =>
          /\ Taken' = put_log'
          /\ audio_queue'[turn_count] = <<>>
          /\ ~stream'[turn_count]]_vars

\* the consumer has ended on the sentinel after a clip whose playback
\* raised and a later clip that was played
C32_Witness ==
  /\ playback_thread[turn_count] = "finished"
  /\ Len(play_log) >= 2
  /\ ~play_log[1].ok
  /\ play_log[2].ok

(***************************************************************************)
(* Termination of a turn (TurnFairSpec).                                   *)
(***************************************************************************)
\* the streaming request, a synthesis call or a playback call has raised
CallRaised ==
  \/ turn_failed /\ ~(gen.chunks # <<>> /\ Head(gen.chunks).voice_id = NoSpeaker)
  \/ \E i \in 1..Len(play_log) : ~play_log[i].ok

\* the sentinel of this turn is in the queue
SentinelEnqueued ==
  \E i \in 1..Len(audio_queue[turn_count]) : IsSentinel(audio_queue[turn_count][i])

\* C33: once the sentinel is enqueued the consumer takes it and ends and
\* generate_host_response returns; and in every turn in which no call to
\* the model, the synthesis or the playback raises, generate_host_response
\* returns and the consumer of the turn has ended: it does not stay blocked
\* on the queue.
C33_EveryTurnTerminates ==
  /\ SentinelEnqueued ~>
       (playback_thread[turn_count] = "finished" /\ pc = "ht_returned")
  /\ <>(CallRaised \/ (pc = "ht_returned" /\ playback_thread[turn_count] = "finished"))

(***************************************************************************)
(* Properties of rewind_result in a session (Spec).                        *)
(***************************************************************************)
\* C34: the fields of rewind_result are filled in the order timestamp,
\* transition, audio_file: a recorded clip comes with a transition text and
\* a timestamp, a transition text comes with a timestamp, and the resume
\* block never opens or plays a transition clip while no timestamp is
\* recorded.
C34_ClipImpliesTransitionAndTimestamp ==
  /\ rewind_result.audio_file # None =>
       rewind_result.transition # None /\ rewind_result.timestamp # None
  /\ rewind_result.transition # None => rewind_result.timestamp # None
  /\ (pc = "resume_playing" \/ resume_steps.transition \in {"played", "failed"}) =>
       rewind_result.timestamp # None

\* the resume block is playing the clip of a resolved result
C34_Witness ==
  /\ pc = "resume_playing"
  /\ rewind_result.audio_file # None
  /\ rewind_result.transition # None
  /\ rewind_result.timestamp # None

(***************************************************************************)
(* The range of the rewind timestamp (RewindSpec).                         *)
(***************************************************************************)
\* C35: for every interrupt time >= 0 and every response of the model, the
\* timestamp find_rewind_point returns is not before the start of the
\* episode and not after the interrupt: 0 <= timestamp <= interrupt_time.
C35_TimestampBetweenStartAndInterrupt ==
  rewind_thread.at \notin {"unstarted", "find"} =>
    /\ rewind_result.timestamp # None
    /\ 0 <= rewind_result.timestamp[1]
    /\ rewind_result.timestamp[1] <= rewind_thread.interrupt

\* an interrupt in the first ten seconds and a suggestion after the
\* interrupt: the fallback is the start of the episode
C35_Witness ==
  /\ rewind_thread.at = "finished"
  /\ rewind_thread.interrupt \in 1..9
  /\ rewind_thread.transcript_context
  /\ rewind_thread.response.timestamp # None
  /\ rewind_thread.response.timestamp[1] > rewind_thread.interrupt
  /\ rewind_result.timestamp = Some(0)

(***************************************************************************)
(* Sessions without a transcript position (Spec).                          *)
(***************************************************************************)
\* C36: a resolver thread is created only in a session whose snapshot has
\* podcast context and whose transcript is loaded; in every other session
\* no resolver is ever started, rewind_result keeps its three fields
\* absent, and the resume block neither plays a transition nor seeks.
C36_NoResolverWithoutTranscriptPosition ==
  /\ rewind_starts > 0 => podcast_context /\ has_transcript
  /\ ~(podcast_context /\ has_transcript) =>
       /\ rewind_thread = IdleResolver
       /\ rewind_result = [timestamp |-> None, transition |-> None,
                           audio_file |-> None]
       /\ pc # "resume_playing"
       /\ ~transition_stream
       /\ resume_steps.transition \in {"none", "absent"}
       /\ \A i \in 1..Len(spotify_calls) : spotify_calls[i] # "seek_to_position"

\* a podcast was playing, no transcript is loaded, a question was asked and
\* answered, and playback was resumed
C36_Witness ==
  /\ podcast_context
  /\ ~has_transcript
  /\ first_user_question
  /\ current_voice_ids # <<>>
  /\ resume_steps.transition = "absent"
  /\ resume_steps.resume = "resumed"
  /\ pc = "done"

(***************************************************************************)
(* Properties of the voice detector (DetectorSpec).                        *)
(***************************************************************************)
\* C37: over any sequence of frames the callbacks are invoked alternately,
\* speech_start first; speech_start is invoked only with more than 90% of
\* the ring buffer's capacity voiced and speech_end only with more than 90%
\* of it unvoiced; and after every frame is_speaking equals triggered,
\* which tells whether the last callback was speech_start.
C37_CallbacksAlternate ==
  /\ \A i \in 1..Len(callbacks) :
       /\ callbacks[i].name = IF i % 2 = 1 THEN "speech_start" ELSE "speech_end"
       /\ 10 * callbacks[i].num > 9 * vad.padding_frames
       /\ callbacks[i].num <= vad.padding_frames
  /\ vad.is_speaking = vad.triggered
  /\ vad.triggered <=> (Len(callbacks) % 2 = 1)

\* start, end and start again on the largest ring buffer, each invoked one
\* frame short of a buffer of one kind (more than 90% of its capacity), the
\* last with a frame of the other kind still in the buffer
C37_Witness ==
  /\ Len(callbacks) = 3
  /\ vad.padding_frames = MaxPaddingFrames
  /\ \A i \in 1..3 : callbacks[i].num = MaxPaddingFrames - 1
  /\ vad.triggered
  /\ \E i \in 1..Len(vad.ring_buffer) : ~vad.ring_buffer[i]

(***************************************************************************)
(* Properties of the voice-activated controller (VoiceSpec).               *)
(***************************************************************************)
\* the step calls self.spotify.resume()
Resumes ==
  /\ Len(voice'.calls) = Len(voice.calls) + 1
  /\ voice'.calls[Len(voice'.calls)] = "resume"

\* C38: on_speech_end calls resume exactly when the most recent
\* on_speech_start saw is_playing true and so called pause; there is at
\* most one resume for such a pause; playback that was not playing before
\* the speech started is never resumed.
C38_ResumesOnlyWhatItPaused ==
  [][/\ Resumes =>
          /\ voice.observed = "playing"
          /\ voice.calls # <<>>
          /\ voice.calls[Len(voice.calls)] = "pause"
     /\ (voice.triggered /\ ~voice'.triggered /\ voice.observed = "playing") =>
          Resumes]_vars

(***************************************************************************)
(* Properties of the transcript manager (TranscriptSpec).                  *)
(***************************************************************************)
\* the same show and the same title, compared case-insensitively
SameShowAndTitle(e1, e2) ==
  /\ Lower(e1.show) = Lower(e2.show)
  /\ Lower(e1.title) = Lower(e2.title)

\* the step is a call of load_transcript_for_episode
CallsLoadForEpisode ==
  /\ last_load'.tick # last_load.tick
  /\ last_load'.op = "for_episode"

\* the call returned True from the cache file written for episode e0: no
\* search, no fetch, and current_transcript is the cached transcript
ServedFromCacheOf(e0) ==
  /\ last_load'.result
  /\ ~last_load'.searched
  /\ ~last_load'.fetched
  /\ cache[GetCacheKey(e0)].state = "ok"
  /\ current_transcript'[last_load'.manager] = cache[GetCacheKey(e0)].transcript
  /\ cache' = cache

C40_FailedLoadKeepsTranscript ==
  [][(last_load'.tick # last_load.tick /\ ~last_load'.result) =>
       /\ current_transcript' = current_transcript
       /\ \A m \in Managers :
            /\ HasTranscript(m)' = HasTranscript(m)
            /\ GetTextAtTimestamp(m, 60)' = GetTextAtTimestamp(m, 60)]_vars

\* the load for another episode failed after a search, and the manager
\* still holds the transcript of the episode it loaded before
C40_Witness ==
  /\ last_load.op = "for_episode"
  /\ last_load.episode = Some([show |-> <<"A", "b">>, title |-> <<"Y">>])
  /\ ~last_load.result
  /\ last_load.searched
  /\ loaded = { [show |-> <<"A", "b">>, title |-> <<"X">>] }
  /\ HasTranscript(last_load.manager)
  /\ GetTextAtTimestamp(last_load.manager, 60) = Some([transcript |-> "T1", at |-> 60])

====
